---- MODULE Spec2Model ----
(***************************************************************************)
(* State-machine model of the coin database layer (txdb.cpp):              *)
(* CCoinsViewDB (GetCoin, HaveCoin, GetBestBlock, GetHeadBlocks,           *)
(* BatchWrite, Cursor, Upgrade) and CCoinsViewDBCursor, over an ordered    *)
(* key-value store with atomic batch writes.                               *)
(***************************************************************************)
EXTENDS Integers, Sequences, FiniteSets, TLC

(***************************************************************************)
(* Record-type tags: the ASCII codes of the source's key characters.       *)
(***************************************************************************)
DB_COIN == 67
DB_COINS == 99
DB_BEST_BLOCK == 66
DB_HEAD_BLOCKS == 72

\* the null hash
UINT256_ZERO == 0
UINT256_ONE == 1

\* CCoinsCacheEntry::DIRTY, the flag bit tested by BatchWrite
DIRTY == 1

(***************************************************************************)
(* Bounds of the model.                                                    *)
(***************************************************************************)
\* largest non-null block hash
MaxHash == 2
\* Upgrade's batch_size (1 << 24 bytes in the source), in the size units of
\* SizeEstimate below
UpgradeBatchSize == 12
\* runs of Upgrade one after the other
MaxRuns == 2
\* lengths of the deltas (mapCoins) handed to BatchWrite
DeltaLengths == {0, 1, 2}
\* transaction ids, output indexes, -dbbatchsize settings
Txids == {1, 2}
Indexes == {0, 1}
BatchSizes == {4, 14, 100}

BlockHashes == 1..MaxHash

(***************************************************************************)
(* Values.                                                                 *)
(***************************************************************************)
COutPoint(hash, n) == [hash |-> hash, n |-> n]

\* the outpoints BatchWrite is exercised with
Outpoints == {COutPoint(1, i) : i \in Indexes}

CTxOut(nValue, script) == [nValue |-> nValue, scriptPubKey |-> script]

\* CTxOut::SetNull / IsNull: nValue = -1
NullTxOut == CTxOut(-1, "empty")

IsNull(out) == out.nValue = -1

\* CScript::IsUnspendable: the script starts with OP_RETURN
IsUnspendable(script) == script = "op_return"

Coin(out, nHeight, fCoinBase, fCoinStake) ==
    [out |-> out, nHeight |-> nHeight, fCoinBase |-> fCoinBase, fCoinStake |-> fCoinStake]

\* Coin::IsSpent
IsSpent(coin) == IsNull(coin.out)

SpentCoin == Coin(NullTxOut, 0, FALSE, FALSE)

\* the unspent coins written by the deltas of the model
UnspentCoins == {Coin(CTxOut(500, "p2pkh"), 10, FALSE, FALSE),
                 Coin(CTxOut(700, "p2pkh"), 11, TRUE, FALSE)}

\* class CCoins: the value of a legacy per-transaction record; parses says
\* whether Unserialize accepts the stored bytes
CCoins(parses, fCoinBase, fCoinStake, vout, nHeight) ==
    [parses |-> parses, fCoinBase |-> fCoinBase, fCoinStake |-> fCoinStake,
     vout |-> vout, nHeight |-> nHeight]

LegacySample ==
    CCoins(TRUE, TRUE, FALSE, <<CTxOut(500, "p2pkh"), CTxOut(700, "p2pkh")>>, 5)

\* the legacy records of the model: two unspent outputs; a spent first
\* output; an unspendable first output; bytes that do not parse
LegacyValues ==
    {LegacySample,
     CCoins(TRUE, FALSE, FALSE, <<NullTxOut, CTxOut(700, "p2pkh")>>, 6),
     CCoins(TRUE, FALSE, TRUE, <<CTxOut(0, "op_return"), CTxOut(500, "p2pkh")>>, 7),
     CCoins(FALSE, FALSE, FALSE, <<>>, 0)}

\* CCoinsCacheEntry: a coin and its flags
CacheEntries ==
    [coin : UnspentCoins \cup {SpentCoin}, flags : {DIRTY}]
        \cup [coin : {SpentCoin}, flags : {0}]

(***************************************************************************)
(* Keys.  A key is the tuple of its serialized fields; the store orders    *)
(* keys lexicographically, field by field.                                 *)
(***************************************************************************)
\* struct CoinEntry: key char, outpoint hash, VARINT(outpoint n)
CoinEntry(outpoint) == <<DB_COIN, outpoint.hash, outpoint.n>>

BestBlockKey == <<DB_BEST_BLOCK>>
HeadBlocksKey == <<DB_HEAD_BLOCKS>>
LegacyKey(txid) == <<DB_COINS, txid>>

(***************************************************************************)
(* The ordered store (CDBWrapper / CDBBatch): a finite map from keys to    *)
(* values, point reads, and a batch of put/delete operations applied       *)
(* atomically, in order, or not at all.                                    *)
(***************************************************************************)
EmptyStore == [k \in {} |-> 0]

Exists(d, key) == key \in DOMAIN d

\* CDBBatch::Write / CDBBatch::Erase
WriteOp(key, value) == [op |-> "write", key |-> key, value |-> <<value>>]
EraseOp(key) == [op |-> "erase", key |-> key, value |-> <<>>]

ApplyOp(d, o) ==
    IF o.op = "write"
    THEN [k \in DOMAIN d \cup {o.key} |-> IF k = o.key THEN o.value[1] ELSE d[k]]
    ELSE [k \in DOMAIN d \ {o.key} |-> d[k]]

RECURSIVE ApplyBatch(_, _)
ApplyBatch(d, b) ==
    IF b = <<>> THEN d ELSE ApplyBatch(ApplyOp(d, Head(b)), Tail(b))

\* CDBWrapper::WriteBatch: all of the batch or nothing; ok is the engine's verdict
WriteBatch(d, b, ok) == IF ok THEN ApplyBatch(d, b) ELSE d

\* CDBBatch::SizeEstimate: the serialized size of the accumulated operations
OpSize(o) ==
    IF o.op = "write" THEN 3 + Len(o.key) + 1 ELSE 2 + Len(o.key)

RECURSIVE SizeEstimate(_)
SizeEstimate(b) ==
    IF b = <<>> THEN 0 ELSE OpSize(Head(b)) + SizeEstimate(Tail(b))

(***************************************************************************)
(* CCoinsViewDB reads.                                                     *)
(***************************************************************************)
\* GetCoin: <<found, coin>>
GetCoin(d, outpoint) ==
    IF Exists(d, CoinEntry(outpoint))
    THEN [found |-> TRUE, coin |-> d[CoinEntry(outpoint)]]
    ELSE [found |-> FALSE, coin |-> SpentCoin]

HaveCoin(d, outpoint) == Exists(d, CoinEntry(outpoint))

GetBestBlock_One(d) ==
    IF ~Exists(d, BestBlockKey) THEN UINT256_ONE ELSE d[BestBlockKey]

GetBestBlock(d) ==
    IF ~Exists(d, BestBlockKey) THEN UINT256_ZERO ELSE d[BestBlockKey]

GetHeadBlocks(d) ==
    IF ~Exists(d, HeadBlocksKey) THEN <<>> ELSE d[HeadBlocksKey]

(***************************************************************************)
(* State.                                                                  *)
(***************************************************************************)
VARIABLES
    db,          \* the durable store: key -> value
    pc,          \* BatchWrite's position: "idle" (not running), "loop",
                 \* "returned" (the caller holds the return value)
    mapCoins,    \* BatchWrite: the entries of the delta not yet consumed
    batch,       \* BatchWrite: the CDBBatch being accumulated
    hashBlock,   \* BatchWrite: the new best block
    old_tip,     \* BatchWrite: the tip the transition starts from
    batch_size,  \* BatchWrite: -dbbatchsize
    ret,         \* how the last BatchWrite ended: "none" (running or never
                 \* run), "true", "false", "abort" (assertion), "crash"
    call,        \* history: the arguments of the current/last BatchWrite, the
                 \* store it started from and the verdict of each WriteBatch
    obs,         \* the result of the last read, "none" once the program moved on
    cur,         \* the CCoinsViewDBCursor in use, if any
    up,          \* Upgrade: its position, iterator, batch and return value
    blk,         \* CBlockTreeDB: its store, the in-memory block index being
                 \* loaded, LoadBlockIndexGuts' position, the last operation
    acc          \* AccumulatorCache: mapCheckpoints, the CZerocoinDB store
                 \* behind it, the last operations

commitVars == <<pc, mapCoins, batch, hashBlock, old_tip, batch_size, ret>>
coinVars == <<db, commitVars, call, obs, cur, up>>
vars == <<coinVars, blk, acc>>

(***************************************************************************)
(* The deltas handed to BatchWrite: sequences (the map's iteration order)  *)
(* of entries with pairwise distinct outpoints.                            *)
(***************************************************************************)
DeltaItems == [outpoint : Outpoints, entry : CacheEntries]

Deltas ==
    UNION {{s \in [1..n -> DeltaItems] :
                \A i, j \in 1..n : i # j => s[i].outpoint # s[j].outpoint}
           : n \in DeltaLengths}

(***************************************************************************)
(* History helpers: what a delta asks for.                                 *)
(***************************************************************************)
IsCoinKey(k) == k[1] = DB_COIN

CoinsOf(d) == [k \in {x \in DOMAIN d : IsCoinKey(x)} |-> d[k]]

DirtyItems(delta) ==
    {delta[i] : i \in {j \in 1..Len(delta) : delta[j].entry.flags % 2 = 1}}

SpentItems(delta) == {x \in DirtyItems(delta) : IsSpent(x.entry.coin)}

WrittenItems(delta) == {x \in DirtyItems(delta) : ~IsSpent(x.entry.coin)}

SpentKeys(delta) == {CoinEntry(it.outpoint) : it \in SpentItems(delta)}

WrittenKeys(delta) == {CoinEntry(it.outpoint) : it \in WrittenItems(delta)}

WrittenCoin(delta, k) ==
    (CHOOSE it \in WrittenItems(delta) : CoinEntry(it.outpoint) = k).entry.coin

\* the coin records of store d with every dirty entry of delta applied
ExpectedCoins(d, delta) ==
    [k \in ({x \in DOMAIN d : IsCoinKey(x)} \ SpentKeys(delta)) \cup WrittenKeys(delta) |->
        IF k \in WrittenKeys(delta) THEN WrittenCoin(delta, k) ELSE d[k]]

\* the store an uninterrupted BatchWrite(delta, hb) makes of store d
Uninterrupted(d, delta, hb) ==
    LET keep == {x \in DOMAIN d : ~IsCoinKey(x) /\ x # HeadBlocksKey /\ x # BestBlockKey}
        coins == ExpectedCoins(d, delta)
    IN  [k \in keep \cup DOMAIN coins \cup {BestBlockKey} |->
            IF k = BestBlockKey THEN hb
            ELSE IF k \in DOMAIN coins THEN coins[k] ELSE d[k]]

\* history record of a call: delta and hb are its arguments, pre the store it
\* started from, writes the verdicts of its WriteBatch calls in order, goal
\* the store an uninterrupted run of it (of its first attempt, when the
\* call repeats one that a crash interrupted) produces; batches holds the
\* batches handed to WriteBatch, in order; after a crash,
\* resumable says the head-blocks marker of the call was durably written;
\* retry says the call repeats such a call with the same arguments
NoCall == [delta |-> <<>>, hb |-> UINT256_ZERO, pre |-> EmptyStore, writes |-> <<>>,
           batches |-> <<>>,
           retry |-> FALSE, resumable |-> FALSE, goal |-> EmptyStore]
NoObs == [kind |-> "none"]
NoCursor == [open |-> FALSE]
\* the in-memory block index (mapBlockIndex): block hash -> node
EmptyIndex == [h \in {} |-> 0]

\* CBlockTreeDB: db is its store, map the caller's block index; pc is
\* "idle", "load" (inside LoadBlockIndexGuts) or "returned"; history: op,
\* args, ret and wrote are the last operation, its arguments, how it ended
\* ("true", "false", "crash") and the record families it wrote
NoBlockTree == [db |-> EmptyStore, map |-> EmptyIndex, pc |-> "idle",
                pcursor |-> <<>>, ret |-> "none", op |-> "none", args |-> <<>>,
                wrote |-> {}, seen |-> <<>>, cancel |-> FALSE]

\* the last operation on an AccumulatorCache: its name, the name of the
\* operation it came after, its key and height
\* arguments, what Get returned (<<height>> or <<>>), whether it read and
\* whether it wrote the store
NoAccOp == [op |-> "none", after |-> "none", key |-> <<>>, height |-> 0, result |-> <<>>,
            reads |-> FALSE, writes |-> FALSE]

\* AccumulatorCache: mapCheckpoints is the in-memory mapping, db the
\* CZerocoinDB store; history: last is the last operation, loaded what
\* ReadAll gave a fresh instance (<<>> before), sets the keys set and not
\* erased or wiped since, each with its last height, held the keys the
\* store held at the start and that were not erased or wiped since, each
\* with the height it held
\* a scan of CZerocoinDB taken record by record: op is "ReadAll" or "Wipe",
\* pc "idle", "scan", "returned" or "interrupted", map what ReadAll has
\* collected, setDelete what WipeAccChecksums has, cancel whether the
\* interruption of the thread has been requested; history: start is the
\* store the scan began on
NoScan == [op |-> "none", pc |-> "idle", pcursor |-> <<>>, map |-> EmptyStore,
           setDelete |-> {}, cancel |-> FALSE, start |-> EmptyStore]

NoCache == [mapCheckpoints |-> EmptyStore, db |-> EmptyStore, last |-> NoAccOp,
            loaded |-> <<>>, sets |-> EmptyStore, held |-> EmptyStore,
            scan |-> NoScan]

\* Upgrade: pc is "idle", "loop" or "returned"; pcursor, batch and ret are
\* the function's; history: runs counts the runs that returned one after
\* the other, writes holds the verdicts of the current run's WriteBatch
\* calls, ret1 and after1 are the return value of the first of these runs
\* and the store it left; start is the store the first run of all began
\* on (<<>> before it), resumed says that a run died after a batch write
NoUpgrade == [pc |-> "idle", runs |-> 0, pcursor |-> <<>>, batch |-> <<>>,
              ret |-> FALSE, writes |-> <<>>, ret1 |-> FALSE, after1 |-> EmptyStore,
              start |-> <<>>, resumed |-> FALSE, cancel |-> FALSE]

(***************************************************************************)
(* CCoinsViewDB::BatchWrite.                                               *)
(***************************************************************************)
\* lines 90-98: the tip the transition starts from; abort = the assertion
\* old_heads[0] == hashBlock fails
OldTip_NoAssert(d, hb) ==
    [abort |-> FALSE,
     tip |-> IF GetBestBlock(d) = UINT256_ZERO /\ Len(GetHeadBlocks(d)) = 2
             THEN GetHeadBlocks(d)[2] ELSE GetBestBlock(d)]

OldTip_NoRecovery(d, hb) == [abort |-> FALSE, tip |-> GetBestBlock(d)]

OldTip(d, hb) ==
    LET tip == GetBestBlock(d)
        old_heads == GetHeadBlocks(d)
    IN  IF tip = UINT256_ZERO /\ Len(old_heads) = 2
        THEN [abort |-> old_heads[1] # hb, tip |-> old_heads[2]]
        ELSE [abort |-> FALSE, tip |-> tip]

HashBlockIsNull_Never(hb) == FALSE

\* line 88: hashBlock.IsNull(), the condition the assertion refuses
HashBlockIsNull(hb) == hb = UINT256_ZERO

\* lines 104-105: mark the database as in transition from tip to hb
Phase1Ops(hb, tip) ==
    <<EraseOp(BestBlockKey), WriteOp(HeadBlocksKey, <<hb, tip>>)>>

CoinOps_Nothing(it) == <<>>

\* lines 108-115: the operation a delta entry adds to the batch
CoinOps(it) ==
    IF it.entry.flags % 2 = 1
    THEN IF IsSpent(it.entry.coin)
         THEN <<EraseOp(CoinEntry(it.outpoint))>>
         ELSE <<WriteOp(CoinEntry(it.outpoint), it.entry.coin)>>
    ELSE <<>>

Phase3Ops_KeepHead(hb) == <<WriteOp(BestBlockKey, hb)>>

Phase3Ops_OldTip(hb) ==
    <<EraseOp(HeadBlocksKey), WriteOp(BestBlockKey, old_tip)>>

\* lines 137-138: mark the database as consistent with hb again
Phase3Ops(hb) ==
    <<EraseOp(HeadBlocksKey), WriteOp(BestBlockKey, hb)>>

BatchWriteRet_False(ok) == FALSE

\* lines 141-143: BatchWrite returns the final WriteBatch's verdict
BatchWriteRet(ok) == ok

Clear_Keep(b) == b

\* line 122: batch.Clear() after an intermediate WriteBatch
Clear(b) == <<>>

EraseConsumed_Keep(m) == m

\* lines 116-117: itOld = it++; mapCoins.erase(itOld): the entry just consumed
\* leaves the caller's map, before the size test of line 118
EraseConsumed(m) == Tail(m)

\* lines 83-105: the assertions, old_tip and the first operations of the batch
Enter(delta, hb, bs, history) ==
    /\ obs' = NoObs
    /\ ~HashBlockIsNull(hb)
    /\ ~OldTip(db, hb).abort
    /\ pc' = "loop"
    /\ mapCoins' = delta
    /\ hashBlock' = hb
    /\ old_tip' = OldTip(db, hb).tip
    /\ batch_size' = bs
    /\ batch' = Phase1Ops(hb, OldTip(db, hb).tip)
    /\ ret' = "none"
    /\ call' = history
    /\ UNCHANGED db
    /\ UNCHANGED <<cur, up, blk, acc>>

\* lines 88 and 95: a failed assertion ends the process before any operation
BatchWriteAbort(hb) ==
    /\ pc = "idle"
    /\ HashBlockIsNull(hb) \/ OldTip(db, hb).abort
    /\ obs' = NoObs
    /\ ret' = "abort"
    /\ call' = [NoCall EXCEPT !.hb = hb]
    /\ UNCHANGED <<db, pc, mapCoins, batch, hashBlock, old_tip, batch_size>>
    /\ UNCHANGED <<cur, up, blk, acc>>

\* the caller commits a delta
BatchWriteBegin(delta, hb, bs) ==
    /\ pc = "idle"
    /\ Enter(delta, hb, bs,
             [NoCall EXCEPT !.delta = delta, !.hb = hb, !.pre = db,
                            !.goal = Uninterrupted(db, delta, hb)])

\* after a crash that left the marker behind, the caller repeats the commit
\* with the same arguments
BatchWriteAgain(bs) ==
    /\ pc = "idle"
    /\ ret = "crash"
    /\ call.resumable
    /\ Enter(call.delta, call.hb, bs,
             [call EXCEPT !.pre = db, !.writes = <<>>, !.batches = <<>>, !.retry = TRUE,
                          !.resumable = FALSE])

\* lines 107-131: one iteration of the loop; oks = the verdicts the engine
\* may give an intermediate WriteBatch
BatchWriteLoop(oks) ==
    /\ pc = "loop"
    /\ mapCoins # <<>>
    /\ obs' = NoObs
    /\ mapCoins' = EraseConsumed(mapCoins)
    /\ LET b == batch \o CoinOps(Head(mapCoins))
       IN  IF SizeEstimate(b) > batch_size
           THEN \E ok \in oks :
                    /\ db' = WriteBatch(db, b, ok)
                    /\ batch' = Clear(b)
                    /\ call' = [call EXCEPT !.writes = Append(@, ok),
                                            !.batches = Append(@, b)]
           ELSE /\ batch' = b
                /\ UNCHANGED <<db, call>>
    /\ UNCHANGED <<pc, hashBlock, old_tip, batch_size, ret>>
    /\ UNCHANGED <<cur, up, blk, acc>>

\* lines 133-143: the final batch and the return
BatchWriteFinal(oks) ==
    /\ pc = "loop"
    /\ mapCoins = <<>>
    /\ obs' = NoObs
    /\ LET b == batch \o Phase3Ops(hashBlock)
       IN  \E ok \in oks :
               /\ db' = WriteBatch(db, b, ok)
               /\ call' = [call EXCEPT !.writes = Append(@, ok),
                                       !.batches = Append(@, b)]
               /\ ret' = IF BatchWriteRet(ok) THEN "true" ELSE "false"
    /\ pc' = "returned"
    /\ batch' = <<>>
    /\ hashBlock' = UINT256_ZERO
    /\ old_tip' = UINT256_ZERO
    /\ UNCHANGED <<mapCoins, batch_size>>
    /\ UNCHANGED <<cur, up, blk, acc>>

\* the caller goes on; of the history only the committed block is kept
Return ==
    /\ pc = "returned"
    /\ pc' = "idle"
    /\ obs' = NoObs
    /\ call' = [NoCall EXCEPT !.hb = call.hb]
    /\ UNCHANGED <<db, mapCoins, batch, hashBlock, old_tip, batch_size, ret>>
    /\ UNCHANGED <<cur, up, blk, acc>>

\* the process dies inside BatchWrite (lines 123-129, or any other cause):
\* the store keeps what was written, everything else is lost
Crash ==
    /\ pc = "loop"
    /\ obs' = NoObs
    /\ pc' = "idle"
    /\ mapCoins' = <<>>
    /\ batch' = <<>>
    /\ hashBlock' = UINT256_ZERO
    /\ old_tip' = UINT256_ZERO
    /\ ret' = "crash"
    /\ call' = IF (call.writes # <<>> /\ call.writes[1]) \/ call.retry
               THEN [call EXCEPT !.pre = EmptyStore, !.writes = <<>>, !.batches = <<>>,
                                 !.retry = FALSE, !.resumable = TRUE]
               ELSE NoCall
    /\ UNCHANGED <<db, batch_size>>
    /\ UNCHANGED <<cur, up, blk, acc>>

\* GetBestBlock, HaveCoin and GetCoin called by a reader
ReadStore_Consuming(d, key) == [k \in DOMAIN d \ {key} |-> d[k]]

\* CDBWrapper::Read and CDBWrapper::Exists: the store after a lookup of key
ReadStore(d, key) == d

\* the store after GetBestBlock and GetCoin / HaveCoin of every outpoint
RECURSIVE AfterReads(_, _)
AfterReads(d, keys) ==
    IF keys = {} THEN d
    ELSE LET k == CHOOSE x \in keys : TRUE
         IN  AfterReads(ReadStore(d, k), keys \ {k})

Reader ==
    /\ obs = NoObs
    /\ obs' = [kind |-> "read",
               noBest |-> ~Exists(db, BestBlockKey),
               fresh |-> DOMAIN db = {},
               best |-> GetBestBlock(db),
               have |-> [o \in Outpoints |-> HaveCoin(db, o)],
               coin |-> [o \in Outpoints |-> GetCoin(db, o)]]
    /\ db' = AfterReads(db, {BestBlockKey} \cup {CoinEntry(o) : o \in Outpoints})
    /\ UNCHANGED <<commitVars, call>>
    /\ UNCHANGED <<cur, up, blk, acc>>

Init ==
    /\ db = EmptyStore
    /\ pc = "idle"
    /\ mapCoins = <<>>
    /\ batch = <<>>
    /\ hashBlock = UINT256_ZERO
    /\ old_tip = UINT256_ZERO
    /\ batch_size \in BatchSizes
    /\ ret = "none"
    /\ call = NoCall
    /\ obs = NoObs
    /\ cur = NoCursor
    /\ up = NoUpgrade
    /\ blk = NoBlockTree
    /\ acc = NoCache

Next ==
    \/ \E delta \in Deltas, hb \in BlockHashes \cup {UINT256_ZERO} :
           BatchWriteBegin(delta, hb, batch_size)
    \/ \E hb \in BlockHashes \cup {UINT256_ZERO} : BatchWriteAbort(hb)
    \/ BatchWriteAgain(batch_size)
    \/ BatchWriteLoop(BOOLEAN)
    \/ BatchWriteFinal(BOOLEAN)
    \/ Return
    \/ Crash
    \/ Reader

Spec == Init /\ [][Next]_vars

\* the same program over an engine none of whose batch writes fails
NextApplied ==
    \/ \E delta \in Deltas, hb \in BlockHashes \cup {UINT256_ZERO} :
           BatchWriteBegin(delta, hb, batch_size)
    \/ \E hb \in BlockHashes \cup {UINT256_ZERO} : BatchWriteAbort(hb)
    \/ BatchWriteAgain(batch_size)
    \/ BatchWriteLoop({TRUE})
    \/ BatchWriteFinal({TRUE})
    \/ Return
    \/ Crash
    \/ Reader

SpecApplied == Init /\ [][NextApplied]_vars

(***************************************************************************)
(* The store's iterator (CDBIterator): a snapshot of the store taken at    *)
(* creation, walked in key order.                                          *)
(***************************************************************************)
RECURSIVE KeyLess(_, _)
KeyLess(a, b) ==
    IF a = <<>> THEN b # <<>>
    ELSE IF b = <<>> THEN FALSE
    ELSE IF a[1] # b[1] THEN a[1] < b[1]
    ELSE KeyLess(Tail(a), Tail(b))

RECURSIVE SortKeys(_)
SortKeys(S) ==
    IF S = {} THEN <<>>
    ELSE LET m == CHOOSE x \in S : \A y \in S \ {x} : KeyLess(x, y)
         IN  <<m>> \o SortKeys(S \ {m})

\* CDBWrapper::NewIterator
NewIterator(d) == [snap |-> d, keys |-> SortKeys(DOMAIN d), pos |-> 1]

\* CDBIterator::Seek: the first key not less than key
Seek(it, key) ==
    LET hits == {i \in 1..Len(it.keys) : ~KeyLess(it.keys[i], key)}
    IN  [it EXCEPT !.pos = IF hits = {} THEN Len(it.keys) + 1
                           ELSE CHOOSE i \in hits : \A j \in hits : i <= j]

\* CDBIterator::Valid
IterValid(it) == it.pos \in 1..Len(it.keys)

IterKey(it) == it.keys[it.pos]
IterValue(it) == it.snap[it.keys[it.pos]]

\* CDBIterator::Next
IterNext(it) == [it EXCEPT !.pos = @ + 1]

\* CDBIterator::GetKey into a CoinEntry (key char, hash, VARINT n): the
\* fields are read in that order, each one read stays written, and the call
\* fails when the key ends before the last field
GetKeyCoinEntry(it, entry) ==
    LET k == IterKey(it)
    IN  [ok |-> Len(k) >= 3,
         key |-> IF Len(k) >= 1 THEN k[1] ELSE entry.key,
         outpoint |-> COutPoint(IF Len(k) >= 2 THEN k[2] ELSE entry.outpoint.hash,
                                IF Len(k) >= 3 THEN k[3] ELSE entry.outpoint.n)]

\* CDBIterator::GetValue into a Coin.  On a coin record it yields the coin
\* ("coin").  On a record of another family the bytes of that value are
\* parsed as a Coin, which succeeds ("garbage") or fails ("false") with the
\* bytes.  On an iterator that is not Valid the read is undefined: the
\* engine's assertion ends the process ("abort") or the call returns
\* either way.
GetValueCoin(it) ==
    IF ~IterValid(it) THEN {"garbage", "false", "abort"}
    ELSE IF IsCoinKey(IterKey(it)) THEN {"coin"}
    ELSE {"garbage", "false"}

InterruptionPoint_Never(requested) == FALSE

\* boost::this_thread::interruption_point() at the head of a scan loop
\* (lines 296, 407, 432, 525): it throws, ending the function, exactly
\* when the interruption of the thread has been requested
InterruptionPoint(requested) == requested

(***************************************************************************)
(* CCoinsViewDB::Cursor and CCoinsViewDBCursor.                            *)
(***************************************************************************)
\* a default-constructed COutPoint
NullOutPoint == COutPoint(UINT256_ZERO, -1)

\* lines 184-201
Cursor(d) ==
    LET pcursor == Seek(NewIterator(d), <<DB_COIN>>)
        entry == GetKeyCoinEntry(pcursor, [key |-> DB_COIN, outpoint |-> NullOutPoint])
    IN  [open |-> TRUE,
         pcursor |-> pcursor,
         hashBlock |-> GetBestBlock(d),
         keyTmp |-> IF IterValid(pcursor)
                    THEN [first |-> entry.key, second |-> entry.outpoint]
                    ELSE [first |-> 0, second |-> NullOutPoint],
         steps |-> 0,
         visited |-> <<>>]

\* lines 203-211
CursorGetKey(c) ==
    IF c.keyTmp.first = DB_COIN
    THEN [found |-> TRUE, key |-> c.keyTmp.second]
    ELSE [found |-> FALSE, key |-> NullOutPoint]

\* lines 213-216
CursorGetValue(c) == GetValueCoin(c.pcursor)

\* lines 223-226
CursorValid(c) == c.keyTmp.first = DB_COIN

CursorNext_Exhaust(c) == {[c EXCEPT !.keyTmp.first = 0, !.steps = 1]}

\* lines 228-237; Next on an iterator that is not Valid is undefined in the
\* engine: it stays where it is or its assertion ends the process
CursorNext(c) ==
    IF ~IterValid(c.pcursor)
    THEN {[c EXCEPT !.keyTmp.first = 0, !.steps = 1], NoCursor}
    ELSE LET pcursor == IterNext(c.pcursor)
             entry == GetKeyCoinEntry(pcursor, [key |-> DB_COIN,
                                                outpoint |-> c.keyTmp.second])
         IN  {[c EXCEPT !.pcursor = pcursor,
                        !.steps = 1,
                        !.keyTmp = IF ~IterValid(pcursor)
                                   THEN [first |-> 0, second |-> c.keyTmp.second]
                                   ELSE IF ~entry.ok
                                   THEN [first |-> 0, second |-> entry.outpoint]
                                   ELSE [first |-> entry.key,
                                         second |-> entry.outpoint]]}

idleCommit ==
    /\ pc = "idle"
    /\ mapCoins = <<>>
    /\ batch = <<>>
    /\ hashBlock = UINT256_ZERO
    /\ old_tip = UINT256_ZERO
    /\ batch_size = 100
    /\ ret = "none"
    /\ call = NoCall

\* history: the outpoints GetKey has handed out while the cursor was Valid,
\* one per position the cursor was put on
Visit(c) ==
    IF c.open /\ CursorValid(c)
    THEN [c EXCEPT !.visited = Append(@, CursorGetKey(c).key)]
    ELSE c

\* the caller opens a cursor
CursorCreate ==
    /\ ~cur.open
    /\ cur' = Visit(Cursor(db))
    /\ obs' = NoObs
    /\ UNCHANGED <<db, commitVars, call, up, blk, acc>>

\* the caller calls Valid, GetKey and GetValue
CursorRead ==
    /\ cur.open
    /\ obs = NoObs
    /\ \E v \in CursorGetValue(cur) :
           obs' = [kind |-> "cursor",
                   created |-> cur.steps = 0,
                   valid |-> CursorValid(cur),
                   key |-> CursorGetKey(cur),
                   value |-> v]
    /\ UNCHANGED <<db, commitVars, call, cur, up, blk, acc>>

\* the caller calls Next
CursorAdvance ==
    /\ cur.open
    /\ cur' \in {Visit(c) : c \in CursorNext(cur)}
    /\ obs' = NoObs
    /\ UNCHANGED <<db, commitVars, call, up, blk, acc>>

\* the stores a cursor is opened on: coin records, the best-block record or
\* the head-blocks marker of an interrupted commit, legacy records
CursorOutpoints == {COutPoint(1, 0), COutPoint(1, 1), COutPoint(2, 0)}

CursorMetas ==
    {EmptyStore,
     [k \in {BestBlockKey} |-> 1],
     [k \in {HeadBlocksKey} |-> <<1, UINT256_ZERO>>]}

StoreOf(meta, outs, coin, txids, legacy) ==
    [k \in DOMAIN meta \cup {CoinEntry(o) : o \in outs} \cup {LegacyKey(t) : t \in txids} |->
        IF k \in DOMAIN meta THEN meta[k]
        ELSE IF k[1] = DB_COIN THEN coin
        ELSE legacy[k[2]]]

\* coin-tagged keys cut short after the hash (a damaged record): such a key
\* sorts before the coin keys of its hash
CutCoinKeys == {<<DB_COIN, h>> : h \in Txids}

WithCutKeys(d, cuts, coin) ==
    [k \in DOMAIN d \cup cuts |-> IF k \in cuts THEN coin ELSE d[k]]

InitCursor ==
    /\ \E meta \in CursorMetas, outs \in SUBSET CursorOutpoints, txids \in SUBSET Txids,
          cuts \in SUBSET CutCoinKeys :
           LET coin == CHOOSE c \in UnspentCoins : c.nHeight = 10
           IN  db = WithCutKeys(StoreOf(meta, outs, coin, txids,
                                        [t \in Txids |-> LegacySample]),
                                cuts, coin)
    /\ idleCommit
    /\ obs = NoObs
    /\ cur = NoCursor
    /\ up = NoUpgrade
    /\ blk = NoBlockTree
    /\ acc = NoCache

NextCursor ==
    \/ CursorCreate
    \/ CursorRead
    \/ CursorAdvance

SpecCursor == InitCursor /\ [][NextCursor]_vars

(***************************************************************************)
(* CCoinsViewDB::Upgrade.                                                  *)
(***************************************************************************)
\* the uint256 of a key whose bytes end inside it, placed where such a key
\* sorts here: behind every whole hash of the model
CutKeyHash == MaxHash + 1

\* CDBIterator::GetKey into std::pair<unsigned char, uint256>, or
\* std::pair<char, uint256>: fails when the key ends before the hash does
GetKeyPair(it) ==
    LET k == IterKey(it)
    IN  [ok |-> Len(k) >= 2 /\ k[2] # CutKeyHash,
         first |-> IF Len(k) >= 1 THEN k[1] ELSE 0,
         second |-> IF Len(k) >= 2 THEN k[2] ELSE UINT256_ZERO]

\* line 527: the iterator is on a legacy record
OnLegacy(it) == IterValid(it) /\ GetKeyPair(it).ok /\ GetKeyPair(it).first = DB_COINS

\* lines 532-540: the coin records of one legacy record, output by output
RECURSIVE NewCoinOps(_, _, _)
NewCoinOps(txid, old_coins, i) ==
    IF i >= Len(old_coins.vout) THEN <<>>
    ELSE (IF ~IsNull(old_coins.vout[i + 1])
             /\ ~IsUnspendable(old_coins.vout[i + 1].scriptPubKey)
          THEN <<WriteOp(CoinEntry(COutPoint(txid, i)),
                         Coin(old_coins.vout[i + 1], old_coins.nHeight,
                              old_coins.fCoinBase, old_coins.fCoinStake))>>
          ELSE <<>>)
         \o NewCoinOps(txid, old_coins, i + 1)

ConvertOps_EraseOnly(key, old_coins) == <<EraseOp(<<key.first, key.second>>)>>

\* lines 532-541: the coin records, then the erase of the legacy record
ConvertOps(key, old_coins) ==
    NewCoinOps(key.second, old_coins, 0) \o <<EraseOp(<<key.first, key.second>>)>>

\* line 552
UpgradeRet(applied) == TRUE

\* lines 524-551 run from the iterator it to the end without interruption
\* and without a failing write: the operations of every batch, in order
RECURSIVE UpgradeOps(_)
UpgradeOps(it) ==
    IF ~OnLegacy(it) \/ ~IterValue(it).parses THEN <<>>
    ELSE ConvertOps(GetKeyPair(it), IterValue(it)) \o UpgradeOps(IterNext(it))

\* the store an Upgrade of d leaves that is not interrupted and whose
\* writes are all applied
Upgraded(d) ==
    ApplyBatch(d, UpgradeOps(Seek(NewIterator(d), <<DB_COINS, UINT256_ZERO>>)))

Returning(r) ==
    [up EXCEPT !.pc = "returned", !.ret = r, !.pcursor = <<>>, !.batch = <<>>,
               !.runs = @ + 1,
               !.ret1 = IF up.runs = 0 THEN r ELSE @]

\* lines 515-523
UpgradeBegin ==
    /\ up.pc \in {"idle", "returned"}
    /\ up.runs < MaxRuns
    /\ LET pcursor == Seek(NewIterator(db), <<DB_COINS, UINT256_ZERO>>)
           start == IF up.start = <<>> THEN <<db>> ELSE up.start
       IN  IF ~IterValid(pcursor)
           THEN up' = [Returning(TRUE) EXCEPT !.writes = <<>>,
                           !.after1 = IF up.runs = 0 THEN db ELSE @,
                           !.start = start]
           ELSE up' = [up EXCEPT !.pc = "loop", !.pcursor = pcursor,
                                 !.batch = <<>>, !.writes = <<>>,
                                 !.start = start]
    /\ obs' = NoObs
    /\ UNCHANGED <<db, commitVars, call, cur, blk, acc>>

\* lines 524-546: one legacy record
UpgradeStep(oks) ==
    /\ up.pc = "loop"
    /\ ~InterruptionPoint(up.cancel)
    /\ OnLegacy(up.pcursor)
    /\ obs' = NoObs
    /\ LET old_coins == IterValue(up.pcursor)
           b == up.batch \o ConvertOps(GetKeyPair(up.pcursor), old_coins)
       IN  IF ~old_coins.parses
           THEN /\ up' = [Returning(FALSE) EXCEPT
                              !.after1 = IF up.runs = 0 THEN db ELSE @]
                /\ UNCHANGED db
           ELSE IF SizeEstimate(b) > UpgradeBatchSize
           THEN \E ok \in oks :
                    /\ db' = WriteBatch(db, b, ok)
                    /\ up' = [up EXCEPT !.batch = <<>>,
                                        !.writes = Append(@, ok),
                                        !.pcursor = IterNext(@)]
           ELSE /\ up' = [up EXCEPT !.batch = b, !.pcursor = IterNext(@)]
                /\ UNCHANGED db
    /\ UNCHANGED <<commitVars, call, cur, blk, acc>>

\* lines 547-553: the loop has ended; the remainder is written
UpgradeFinish(oks) ==
    /\ up.pc = "loop"
    /\ ~IterValid(up.pcursor)
          \/ (~InterruptionPoint(up.cancel) /\ ~OnLegacy(up.pcursor))
    /\ obs' = NoObs
    /\ \E ok \in oks :
           /\ db' = WriteBatch(db, up.batch, ok)
           /\ up' = [Returning(UpgradeRet(ok)) EXCEPT
                         !.writes = Append(@, ok),
                         !.after1 = IF up.runs = 0 THEN db' ELSE @]
    /\ UNCHANGED <<commitVars, call, cur, blk, acc>>

\* the interruption of the thread is requested while Upgrade runs
UpgradeRequestInterrupt ==
    /\ up.pc = "loop"
    /\ ~up.cancel
    /\ up' = [up EXCEPT !.cancel = TRUE]
    /\ obs' = NoObs
    /\ UNCHANGED <<db, commitVars, call, cur, blk, acc>>

\* line 525: the interruption point throws; the batch under construction
\* is dropped with the function's locals
UpgradeInterrupted ==
    /\ up.pc = "loop"
    /\ IterValid(up.pcursor)
    /\ InterruptionPoint(up.cancel)
    /\ up' = [up EXCEPT !.pc = "interrupted", !.pcursor = <<>>, !.batch = <<>>]
    /\ obs' = NoObs
    /\ UNCHANGED <<db, commitVars, call, cur, blk, acc>>

\* the process dies inside Upgrade
UpgradeCrash ==
    /\ up.pc = "loop"
    /\ up' = [NoUpgrade EXCEPT !.start = up.start,
                               !.resumed = up.resumed \/ Len(up.writes) >= 1]
    /\ obs' = NoObs
    /\ UNCHANGED <<db, commitVars, call, cur, blk, acc>>

\* the stores Upgrade is run on: a best-block record, legacy records, and
\* possibly a coin record already in the new format
InitUpgrade ==
    /\ \E outs \in SUBSET {COutPoint(1, 0)}, txids \in SUBSET Txids,
          legacy \in [Txids -> LegacyValues] :
           db = StoreOf([k \in {BestBlockKey} |-> 1], outs,
                        CHOOSE c \in UnspentCoins : c.nHeight = 10, txids, legacy)
    /\ idleCommit
    /\ obs = NoObs
    /\ cur = NoCursor
    /\ up = NoUpgrade
    /\ blk = NoBlockTree
    /\ acc = NoCache

NextUpgrade ==
    \/ UpgradeBegin
    \/ UpgradeStep(BOOLEAN)
    \/ UpgradeFinish(BOOLEAN)
    \/ UpgradeCrash
    \/ UpgradeRequestInterrupt
    \/ UpgradeInterrupted

SpecUpgrade == InitUpgrade /\ [][NextUpgrade]_vars

\* the same over an engine none of whose batch writes fails
NextUpgradeApplied ==
    \/ UpgradeBegin
    \/ UpgradeStep({TRUE})
    \/ UpgradeFinish({TRUE})
    \/ UpgradeCrash
    \/ UpgradeRequestInterrupt
    \/ UpgradeInterrupted

SpecUpgradeApplied == InitUpgrade /\ [][NextUpgradeApplied]_vars

(***************************************************************************)
(* Claims about BatchWrite and the reads.                                  *)
(***************************************************************************)
HasBest == Exists(db, BestBlockKey)
HasHead == Exists(db, HeadBlocksKey)
Returned(r) == pc = "returned" /\ ret = r
IntermediateWrites == 1..(Len(call.writes) - 1)

\* C1: whenever the best-block record is set, the coin records are the
\* fully applied result of the commit that named that block: inside and
\* after a BatchWrite (a crash keeps the store of the state it strikes in)
\* a set pointer is either still the pointer the call found, over an
\* untouched store, or the call's hashBlock over the call's whole delta.
C1_BestBlockFullyApplied ==
    (pc \in {"loop", "returned"} /\ HasBest) =>
        \/ db = call.pre
        \/ db[BestBlockKey] = call.hb /\ CoinsOf(db) = CoinsOf(call.goal)

\* C2: after BatchWrite returns true, every outpoint the delta marked dirty
\* and spent is absent (HaveCoin false, GetCoin finds nothing) and every
\* outpoint it marked dirty and unspent reads back as the written coin.
C2_RoundTrip ==
    Returned("true") =>
        \A it \in DirtyItems(call.delta) :
            IF IsSpent(it.entry.coin)
            THEN ~HaveCoin(db, it.outpoint) /\ ~GetCoin(db, it.outpoint).found
            ELSE GetCoin(db, it.outpoint) = [found |-> TRUE, coin |-> it.entry.coin]

\* C3: a BatchWrite repeated with the same arguments after a crash that
\* left the head-blocks marker behind, once it returns true, leaves the
\* store an uninterrupted run of the first attempt produces.
C3_IdempotentRecovery ==
    (Returned("true") /\ call.retry) => db = call.goal

\* C4: the best-block record and the head-blocks marker are never both
\* present, and after a BatchWrite that returned true the best-block
\* record is present and the marker is not.
C4_BestXorHead ==
    /\ ~(HasBest /\ HasHead)
    /\ Returned("true") => (HasBest /\ ~HasHead)

\* a chunked commit, whose marker was durable mid-commit, has completed
C4_Witness ==
    /\ Returned("true")
    /\ Len(call.writes) >= 2
    /\ call.writes[1]
    /\ HasBest /\ ~HasHead

\* C5: from the return of a successful BatchWrite(.., B) until the next
\* BatchWrite begins, GetBestBlock returns B.
C5_BestBlockIsCommitted ==
    (ret = "true") => GetBestBlock(db) = call.hb

\* commit(.., 1) then commit(.., 2): a reader gets 2
C5_Witness ==
    /\ Returned("true")
    /\ call.hb = 2
    /\ GetBestBlock(call.pre) = 1
    /\ obs.kind = "read" /\ obs.best = 2

\* C6: GetBestBlock on a store without best-block record, a fresh store
\* among them, returns the null hash.
C6_NullOnFreshStore ==
    (obs.kind = "read" /\ obs.noBest) => obs.best = UINT256_ZERO

\* a reader called GetBestBlock on the fresh, empty store
C6_Witness ==
    obs.kind = "read" /\ obs.fresh /\ obs.best = UINT256_ZERO

\* C7: a BatchWrite one of whose batch writes failed does not return true.
C7_FailurePropagates ==
    Returned("true") => \A i \in 1..Len(call.writes) : call.writes[i]

NoCoinRecord == \A k \in DOMAIN db : k[1] # DB_COIN

\* C9: a cursor created on a store without coin-tagged record is exhausted
\* at once: Valid is false, GetKey and GetValue return nothing.
C9_EmptyKeyspaceExhausted ==
    (obs.kind = "cursor" /\ obs.created /\ NoCoinRecord) =>
        (~obs.valid /\ ~obs.key.found /\ obs.value = "false")

\* the part of C9 that Valid and GetKey decide
C9_ValidAndGetKey ==
    (obs.kind = "cursor" /\ obs.created /\ NoCoinRecord) =>
        (~obs.valid /\ ~obs.key.found)

(***************************************************************************)
(* Claims about Upgrade.                                                   *)
(***************************************************************************)
NoLegacyRecord == \A k \in DOMAIN db : k[1] # DB_COINS

\* C10: after an Upgrade that returned true no legacy-tagged record
\* remains, and a second Upgrade right after it returns true and leaves
\* the store exactly as the first one left it.
C10_UpgradeIdempotent ==
    (up.pc = "returned" /\ up.ret1) =>
        /\ up.runs = 1 => NoLegacyRecord
        /\ up.runs = 2 => (up.ret /\ db = up.after1)

\* C11: an Upgrade that returns true after an earlier run died past one of
\* its batch writes leaves the store an uninterrupted Upgrade of the
\* original store leaves.
C11_ResumeAfterCrash ==
    (up.pc = "returned" /\ up.ret /\ up.resumed) => db = Upgraded(up.start[1])

\* C19: an Upgrade one of whose batch writes failed does not return true.
C19_UpgradeFailurePropagates ==
    (up.pc = "returned" /\ \E i \in 1..Len(up.writes) : ~up.writes[i]) => ~up.ret

(***************************************************************************)
(* Further claims about BatchWrite and the reads.                          *)
(***************************************************************************)
\* C15: a BatchWrite with the null hash fails its assertion with the store
\* untouched, so the best-block record, when present, is never the null
\* hash and neither is the first entry of the head-blocks marker.
C15_BestBlockNeverNull ==
    /\ HasBest => GetBestBlock(db) # UINT256_ZERO
    /\ HasHead => GetHeadBlocks(db)[1] # UINT256_ZERO

\* the assertion stopped a call on a store with a best block: only the
\* null-hash assertion can, the other needs the best-block record unset
C15_Witness == ret = "abort" /\ HasBest /\ ~HasHead

\* C16: the reads (GetCoin, HaveCoin, GetBestBlock) leave every record of
\* the store as it was.
C16_ReadsArePure == [][(obs'.kind = "read") => (db' = db)]_vars

\* a read of a store that holds a best block and a coin
C16_Witness ==
    /\ obs.kind = "read"
    /\ obs.best # UINT256_ZERO
    /\ \E o \in Outpoints : obs.have[o]

(***************************************************************************)
(* CBlockTreeDB.                                                           *)
(***************************************************************************)
DB_BLOCK_FILES == 102
DB_TXINDEX == 116
DB_BLOCK_INDEX == 98
DB_FLAG == 70
DB_REINDEX_FLAG == 82
DB_LAST_BLOCK == 108
DB_INT_Flag == DB_FLAG
\* the tag of the named integers, 'I'
DB_INT == 73
\* the chars '1' and '0' a flag is stored as
CHAR_ONE == 49
CHAR_ZERO == 48

\* the inputs of the model
Names == {1}
IntValues == {7}
Files == {0, 1}
FileInfos == {[nBlocks |-> 1]}
IndexHashes == {1, 2}

\* the height UPGRADE_POS is active from, and the difficulty bits: a
\* target every hash of the model meets, and one none meets
PosHeight == 2
EasyBits == MaxHash
HardBits == 0

\* Params().GetConsensus().NetworkUpgradeActive(nHeight, UPGRADE_POS)
NetworkUpgradeActive(nHeight) == nHeight >= PosHeight

\* CheckProofOfWork(hash, nBits): the hash is within the target
CheckProofOfWork(hash, nBits) == hash <= nBits

\* a CDiskBlockIndex as stored; parses = its bytes unserialize
CDiskBlockIndex(parses, hash, hashPrev, nHeight, nBits) ==
    [parses |-> parses, hash |-> hash, hashPrev |-> hashPrev,
     nHeight |-> nHeight, nBits |-> nBits]

\* the index records a block hash may have: sound, failing its proof of
\* work below and from the activation height, unreadable
DiskRecords(h) ==
    {CDiskBlockIndex(TRUE, h, h - 1, 1, EasyBits),
     CDiskBlockIndex(TRUE, h, h - 1, 1, HardBits),
     CDiskBlockIndex(TRUE, h, h - 1, PosHeight, HardBits),
     CDiskBlockIndex(FALSE, h, h - 1, 1, EasyBits)}

BlockIndexKey(hash) == <<DB_BLOCK_INDEX, hash>>
BlockFilesKey(nFile) == <<DB_BLOCK_FILES, nFile>>
TxIndexKey(txid) == <<DB_TXINDEX, txid>>
FlagKey(name) == <<DB_FLAG, name>>
IntKey(name) == <<DB_INT, name>>
ReindexKey == <<DB_REINDEX_FLAG>>
LastBlockKey == <<DB_LAST_BLOCK>>

\* CDBWrapper::Read: the value under key, if any
Read(d, key) ==
    IF Exists(d, key) THEN [ok |-> TRUE, value |-> <<d[key]>>]
    ELSE [ok |-> FALSE, value |-> <<>>]

ReadBlockFileInfo(d, nFile) == Read(d, BlockFilesKey(nFile))
ReadReindexing(d) == Exists(d, ReindexKey)
ReadLastBlockFile(d) == Read(d, LastBlockKey)
ReadTxIndex(d, txid) == Read(d, TxIndexKey(txid))
ReadFlag(d, name) ==
    IF ~Read(d, FlagKey(name)).ok THEN [ok |-> FALSE, fValue |-> FALSE]
    ELSE [ok |-> TRUE, fValue |-> Read(d, FlagKey(name)).value[1] = CHAR_ONE]
ReadInt(d, name) == Read(d, IntKey(name))

\* lines 241-247 without the last-file record
WriteBatchSyncOps_NoLastFile(fileInfo, nLastFile, blockinfo) ==
    [i \in 1..Len(fileInfo) |->
        WriteOp(BlockFilesKey(fileInfo[i][1]), fileInfo[i][2])]
    \o [i \in 1..Len(blockinfo) |->
        WriteOp(BlockIndexKey(blockinfo[i].hash), blockinfo[i])]

\* lines 240-247: the batch of WriteBatchSync
WriteBatchSyncOps(fileInfo, nLastFile, blockinfo) ==
    [i \in 1..Len(fileInfo) |->
        WriteOp(BlockFilesKey(fileInfo[i][1]), fileInfo[i][2])]
    \o <<WriteOp(LastBlockKey, nLastFile)>>
    \o [i \in 1..Len(blockinfo) |->
        WriteOp(BlockIndexKey(blockinfo[i].hash), blockinfo[i])]

\* one write operation of CBlockTreeDB: ops go to the store in one batch;
\* the engine applies it or not (ok), and the process may die in the call.
\* The history keeps the arguments of WriteBatchSync only.
BlockTreeWrite(op, args, ops, families, ok, dies) ==
    /\ blk' = [blk EXCEPT !.db = WriteBatch(@, ops, ok),
                          !.op = op, !.args = args, !.wrote = families,
                          !.ret = IF dies THEN "crash"
                                  ELSE IF ok THEN "true" ELSE "false"]
    /\ UNCHANGED <<coinVars, acc>>

\* lines 155-158
WriteBlockIndex(blockindex, ok, dies) ==
    /\ blk.pc = "idle"
    /\ BlockTreeWrite("WriteBlockIndex", <<>>,
                      <<WriteOp(BlockIndexKey(blockindex.hash), blockindex)>>,
                      {"index"}, ok, dies)

\* lines 165-171
WriteReindexing(fReindexing, ok, dies) ==
    /\ blk.pc = "idle"
    /\ BlockTreeWrite("WriteReindexing", <<>>,
                      IF fReindexing THEN <<WriteOp(ReindexKey, CHAR_ONE)>>
                      ELSE <<EraseOp(ReindexKey)>>,
                      {"reindex"}, ok, dies)

\* lines 239-249
WriteBatchSync(fileInfo, nLastFile, blockinfo, ok, dies) ==
    /\ blk.pc = "idle"
    /\ BlockTreeWrite("WriteBatchSync", <<fileInfo, nLastFile, blockinfo>>,
                      WriteBatchSyncOps(fileInfo, nLastFile, blockinfo),
                      {"file", "last", "index"}, ok, dies)

\* lines 256-262
WriteTxIndex(vect, ok, dies) ==
    /\ blk.pc = "idle"
    /\ BlockTreeWrite("WriteTxIndex", <<>>,
                      [i \in 1..Len(vect) |-> WriteOp(TxIndexKey(vect[i][1]), vect[i][2])],
                      {"tx"}, ok, dies)

\* lines 264-267
WriteFlag(name, fValue, ok, dies) ==
    /\ blk.pc = "idle"
    /\ BlockTreeWrite("WriteFlag", <<>>,
                      <<WriteOp(FlagKey(name), IF fValue THEN CHAR_ONE ELSE CHAR_ZERO)>>,
                      {"flag"}, ok, dies)

\* lines 278-281
WriteInt(name, nValue, ok, dies) ==
    /\ blk.pc = "idle"
    /\ BlockTreeWrite("WriteInt", <<>>,
                      <<WriteOp(IntKey(name), nValue)>>, {"int"}, ok, dies)

\* the arguments the callers pass: distinct files, distinct blocks
FileInfoArgs ==
    {<<>>} \cup {<<<<0, i>>>> : i \in FileInfos}
    \cup {<<<<0, i>>, <<1, i>>>> : i \in FileInfos}
BlockOf(h) == CDiskBlockIndex(TRUE, h, h - 1, h, EasyBits)
BlockInfoArgs == {<<>>, <<BlockOf(1), BlockOf(2)>>}

NextBlockTree ==
    \E ok \in BOOLEAN :
        \/ \E h \in IndexHashes : WriteBlockIndex(BlockOf(h), ok, FALSE)
        \/ \E b \in BOOLEAN : WriteReindexing(b, ok, FALSE)
        \/ \E fi \in FileInfoArgs, lf \in Files, bi \in BlockInfoArgs, dies \in BOOLEAN :
               WriteBatchSync(fi, lf, bi, ok, dies)
        \/ WriteTxIndex(<<<<1, [nFile |-> 0]>>>>, ok, FALSE)
        \/ \E n \in Names, b \in BOOLEAN : WriteFlag(n, b, ok, FALSE)
        \/ \E n \in Names, v \in IntValues : WriteInt(n, v, ok, FALSE)

InitBlockTree ==
    /\ db = EmptyStore
    /\ idleCommit
    /\ obs = NoObs
    /\ cur = NoCursor
    /\ up = NoUpgrade
    /\ blk = NoBlockTree
    /\ acc = NoCache

SpecBlockTree == InitBlockTree /\ [][NextBlockTree]_vars

(***************************************************************************)
(* CBlockTreeDB::LoadBlockIndexGuts.                                       *)
(***************************************************************************)
\* a CBlockIndex as constructed
NewBlockIndex == [pprev |-> UINT256_ZERO, nHeight |-> 0, nBits |-> 0]

\* insertBlockIndex: the node of hash, created if there is none; no node
\* for the null hash.  A node is named by its hash, the null hash names
\* no node.
InsertBlockIndex(map, hash) ==
    IF hash = UINT256_ZERO \/ hash \in DOMAIN map THEN map
    ELSE [h \in DOMAIN map \cup {hash} |-> IF h = hash THEN NewBlockIndex ELSE map[h]]

\* lines 302-324: the nodes of the record and of its predecessor, and the
\* record's fields copied onto its node
Construct(map, diskindex) ==
    LET m == InsertBlockIndex(InsertBlockIndex(map, diskindex.hash), diskindex.hashPrev)
    IN  [m EXCEPT ![diskindex.hash] =
            [pprev |-> diskindex.hashPrev, nHeight |-> diskindex.nHeight,
             nBits |-> diskindex.nBits]]

\* lines 294-298: the iterator is on a block-index record
OnBlockIndex(it) ==
    IterValid(it) /\ GetKeyPair(it).ok /\ GetKeyPair(it).first = DB_BLOCK_INDEX

\* lines 327-329
PowChecked(diskindex) ==
    ~NetworkUpgradeActive(diskindex.nHeight)
        => CheckProofOfWork(diskindex.hash, diskindex.nBits)

\* lines 288-292
LoadBegin ==
    /\ blk.pc = "idle"
    /\ blk' = [blk EXCEPT !.pc = "load", !.op = "LoadBlockIndexGuts", !.args = <<>>,
                          !.wrote = {}, !.ret = "none", !.seen = <<>>,
                          !.pcursor = Seek(NewIterator(blk.db),
                                           <<DB_BLOCK_INDEX, UINT256_ZERO>>)]
    /\ UNCHANGED <<coinVars, acc>>

\* lines 294-335: one block-index record
LoadStep ==
    /\ blk.pc = "load"
    /\ ~InterruptionPoint(blk.cancel)
    /\ OnBlockIndex(blk.pcursor)
    /\ LET diskindex == IterValue(blk.pcursor)
       IN  IF ~diskindex.parses
           THEN blk' = [blk EXCEPT !.pc = "returned", !.ret = "false", !.pcursor = <<>>]
           ELSE IF ~PowChecked(diskindex)
           THEN blk' = [blk EXCEPT !.pc = "returned", !.ret = "false", !.pcursor = <<>>,
                                   !.map = Construct(@, diskindex),
                                   !.seen = Append(@, IterKey(blk.pcursor))]
           ELSE blk' = [blk EXCEPT !.pcursor = IterNext(@),
                                   !.map = Construct(@, diskindex),
                                   !.seen = Append(@, IterKey(blk.pcursor))]
    /\ UNCHANGED <<coinVars, acc>>

\* lines 294, 336-341: the loop ends, the function returns true
LoadEnd ==
    /\ blk.pc = "load"
    /\ ~IterValid(blk.pcursor)
          \/ (~InterruptionPoint(blk.cancel) /\ ~OnBlockIndex(blk.pcursor))
    /\ blk' = [blk EXCEPT !.pc = "returned", !.ret = "true", !.pcursor = <<>>]
    /\ UNCHANGED <<coinVars, acc>>

\* the interruption of the thread is requested while the index is loaded
LoadRequestInterrupt ==
    /\ blk.pc = "load"
    /\ ~blk.cancel
    /\ blk' = [blk EXCEPT !.cancel = TRUE]
    /\ UNCHANGED <<coinVars, acc>>

\* line 296: the interruption point throws
LoadInterrupted ==
    /\ blk.pc = "load"
    /\ IterValid(blk.pcursor)
    /\ InterruptionPoint(blk.cancel)
    /\ blk' = [blk EXCEPT !.pc = "interrupted", !.pcursor = <<>>]
    /\ UNCHANGED <<coinVars, acc>>

\* the stores the index is loaded from: block-index records, possibly one
\* whose key is cut short, possibly records of the families before and
\* behind them
LoadTails ==
    {EmptyStore,
     [k \in {BlockFilesKey(0)} |-> [nBlocks |-> 1]],
     [k \in {LastBlockKey} |-> 0],
     [k \in {FlagKey(1)} |-> CHAR_ONE],
     [k \in {FlagKey(1), LastBlockKey} |-> IF k = LastBlockKey THEN 0 ELSE CHAR_ONE]}

LoadStores ==
    {[k \in {BlockIndexKey(h) : h \in hs} \cup DOMAIN tail |->
         IF k \in DOMAIN tail THEN tail[k] ELSE recs[k[2]]] :
       hs \in SUBSET (IndexHashes \cup {CutKeyHash}),
       recs \in [IndexHashes \cup {CutKeyHash} ->
                    UNION {DiskRecords(h) : h \in IndexHashes}],
       tail \in LoadTails}

InitLoad ==
    /\ db = EmptyStore
    /\ idleCommit
    /\ obs = NoObs
    /\ cur = NoCursor
    /\ up = NoUpgrade
    /\ \E d \in LoadStores : blk = [NoBlockTree EXCEPT !.db = d]
    /\ acc = NoCache

NextLoad == LoadBegin \/ LoadStep \/ LoadEnd

SpecLoad == InitLoad /\ [][NextLoad]_vars

(***************************************************************************)
(* Claims about CBlockTreeDB.                                              *)
(***************************************************************************)
\* the store holds a readable block-index record below the activation
\* height whose proof of work fails
HasBadPow(d) ==
    \E k \in DOMAIN d :
        /\ k[1] = DB_BLOCK_INDEX /\ k[2] # CutKeyHash
        /\ d[k].parses /\ ~PowChecked(d[k])

\* C14: LoadBlockIndexGuts on a store with a block-index record below the
\* activation height whose proof of work fails returns false and leaves no
\* node of that load in the block index.
C14_NoPartialIndex ==
    (blk.pc = "returned" /\ HasBadPow(blk.db)) =>
        (blk.ret = "false" /\ blk.map = EmptyIndex)

\* the half of C14 about the return value
C14_LoadFails ==
    (blk.pc = "returned" /\ HasBadPow(blk.db)) => blk.ret = "false"

\* WriteBatchSync's arguments are all in the store d, which is otherwise pre
BatchSyncApplied(d, pre, args) ==
    LET keys == {BlockFilesKey(args[1][i][1]) : i \in 1..Len(args[1])}
                \cup {LastBlockKey}
                \cup {BlockIndexKey(args[3][i].hash) : i \in 1..Len(args[3])}
    IN  /\ \A i \in 1..Len(args[1]) :
               ReadBlockFileInfo(d, args[1][i][1]) = [ok |-> TRUE, value |-> <<args[1][i][2]>>]
        /\ ReadLastBlockFile(d) = [ok |-> TRUE, value |-> <<args[2]>>]
        /\ \A i \in 1..Len(args[3]) :
               Read(d, BlockIndexKey(args[3][i].hash)) = [ok |-> TRUE, value |-> <<args[3][i]>>]
        /\ DOMAIN d = DOMAIN pre \cup keys
        /\ \A k \in DOMAIN pre \ keys : d[k] = pre[k]

\* C17: whether WriteBatchSync returns or the process dies in it, the store
\* afterwards holds every file-info record, the last-file counter and every
\* block-index record given, or it is the store from before the call.
C17_BatchSyncAtomic ==
    [][(blk'.op = "WriteBatchSync") =>
           (blk'.db = blk.db \/ BatchSyncApplied(blk'.db, blk.db, blk'.args))]_vars

\* a WriteBatchSync of two files and two blocks was applied
C17_Witness ==
    /\ blk.op = "WriteBatchSync" /\ blk.ret = "true"
    /\ Len(blk.args[1]) = 2 /\ Len(blk.args[3]) = 2
    /\ BatchSyncApplied(blk.db, blk.db, blk.args)

\* the store holds a block-index record whose key or value does not decode
HasUndecodable(d) ==
    \E k \in DOMAIN d :
        k[1] = DB_BLOCK_INDEX /\ (k[2] = CutKeyHash \/ ~d[k].parses)

\* C18: a LoadBlockIndexGuts over a store with a block-index record whose
\* key or value cannot be decoded returns an error.
C18_DecodeFailureFatal ==
    (blk.pc = "returned" /\ HasUndecodable(blk.db)) => blk.ret = "false"

\* the half of C18 about values
C18_ValueFailureFatal ==
    (blk.pc = "returned"
        /\ \E k \in DOMAIN blk.db :
               k[1] = DB_BLOCK_INDEX /\ k[2] # CutKeyHash /\ ~blk.db[k].parses)
    => blk.ret = "false"

\* what the reads of each record family return
Families == {"index", "reindex", "file", "last", "tx", "flag", "int"}
FamilyReads(d) ==
    [index |-> [h \in IndexHashes |-> Read(d, BlockIndexKey(h))],
     reindex |-> ReadReindexing(d),
     file |-> [f \in Files |-> ReadBlockFileInfo(d, f)],
     last |-> ReadLastBlockFile(d),
     tx |-> [t \in Txids |-> ReadTxIndex(d, t)],
     flag |-> [n \in Names |-> ReadFlag(d, n)],
     int |-> [n \in Names |-> ReadInt(d, n)]]

TagsDistinct ==
    /\ Cardinality({DB_COIN, DB_COINS, DB_BEST_BLOCK, DB_HEAD_BLOCKS}) = 4
    /\ Cardinality({DB_BLOCK_FILES, DB_TXINDEX, DB_BLOCK_INDEX, DB_FLAG,
                    DB_REINDEX_FLAG, DB_LAST_BLOCK, DB_INT}) = 7

\* C20: the tags of the record families of one store are pairwise
\* distinct, and a write or erase of records of some families leaves what
\* the reads of every other family return as it was.
C20_FamiliesNeverCollide ==
    [][/\ TagsDistinct
       /\ \A f \in Families \ blk'.wrote :
              FamilyReads(blk'.db)[f] = FamilyReads(blk.db)[f]]_vars

\* the named integer and the named flag of one name are both stored
C20_Witness ==
    /\ blk.op = "WriteInt" /\ blk.ret = "true"
    /\ \E n \in Names : ReadFlag(blk.db, n).ok /\ ReadInt(blk.db, n).ok

(***************************************************************************)
(* CZerocoinDB accumulator checksums and AccumulatorCache.                 *)
(***************************************************************************)
LZC_ACCUMCS == 65
\* the tag of the coin-spend records, 's'
DB_COINSPEND == 115
\* libzerocoin::CoinDenomination::ZQ_ERROR
ZQ_ERROR == 0

\* the inputs of the model: (checksum, denomination) pairs and heights
CacheKeys == {<<1, 1>>, <<2, 1>>}
Heights == {10, 20}

AccKey(p) == <<LZC_ACCUMCS, p[1], p[2]>>

\* lines 392-395
ReadAccChecksum(d, p) == Read(d, AccKey(p))

\* a function with one more entry, or one less
MapSet(m, k, v) == [x \in DOMAIN m \cup {k} |-> IF x = k THEN v ELSE m[x]]
MapErase_Keep(m, k) == m

MapErase(m, k) == [x \in DOMAIN m \ {k} |-> m[x]]

\* CDBIterator::GetKey into std::pair<char, std::pair<uint32_t, CoinDenomination>>
GetKeyAcc(it) ==
    LET k == IterKey(it)
    IN  [ok |-> Len(k) >= 3,
         first |-> IF Len(k) >= 1 THEN k[1] ELSE 0,
         second |-> IF Len(k) >= 3 THEN <<k[2], k[3]>> ELSE <<0, ZQ_ERROR>>]

OnAccChecksum(it) ==
    IterValid(it) /\ GetKeyAcc(it).ok /\ GetKeyAcc(it).first = LZC_ACCUMCS

\* lines 406-419: the loop of ReadAll from the iterator it on
RECURSIVE ReadAllFrom(_, _)
ReadAllFrom(it, m) ==
    IF ~OnAccChecksum(it) THEN m
    ELSE ReadAllFrom(IterNext(it), MapSet(m, GetKeyAcc(it).second, IterValue(it)))

\* lines 402-424: ReadAll into mapCheckpoints
ReadAll(d, mapCheckpoints) ==
    ReadAllFrom(Seek(NewIterator(d), <<LZC_ACCUMCS, 0, ZQ_ERROR>>), mapCheckpoints)

\* lines 428-441: the keys WipeAccChecksums collects
RECURSIVE SetDeleteFrom(_)
SetDeleteFrom(it) ==
    IF ~OnAccChecksum(it) THEN {}
    ELSE {IterKey(it)} \cup SetDeleteFrom(IterNext(it))

Get_DiskFirst(m, d, p) ==
    IF ReadAccChecksum(d, p).ok
    THEN [map |-> MapSet(m, p, ReadAccChecksum(d, p).value[1]),
          result |-> ReadAccChecksum(d, p).value, reads |-> TRUE]
    ELSE [map |-> m, result |-> IF p \in DOMAIN m THEN <<m[p]>> ELSE <<>>,
          reads |-> TRUE]

Get_NoPopulate(m, d, p) ==
    IF p \in DOMAIN m
    THEN [map |-> m, result |-> <<m[p]>>, reads |-> FALSE]
    ELSE [map |-> m, result |-> ReadAccChecksum(d, p).value, reads |-> TRUE]

\* lines 555-574: AccumulatorCache::Get
Get(m, d, p) ==
    IF p \in DOMAIN m
    THEN [map |-> m, result |-> <<m[p]>>, reads |-> FALSE]
    ELSE IF ReadAccChecksum(d, p).ok
    THEN [map |-> MapSet(m, p, ReadAccChecksum(d, p).value[1]),
          result |-> ReadAccChecksum(d, p).value, reads |-> TRUE]
    ELSE [map |-> m, result |-> <<>>, reads |-> TRUE]

\* lines 590-596: the writes of Flush, entry by entry in key order; okf
\* gives the engine's verdict on each
RECURSIVE FlushFrom(_, _, _, _)
FlushFrom(d, m, keys, okf) ==
    IF keys = <<>> THEN d
    ELSE FlushFrom(WriteBatch(d, <<WriteOp(AccKey(Head(keys)), m[Head(keys)])>>,
                              okf[Head(keys)]),
                   m, Tail(keys), okf)

\* the erases of WipeAccChecksums, key by key
RECURSIVE EraseFrom(_, _, _)
EraseFrom(d, keys, okf) ==
    IF keys = <<>> THEN d
    ELSE EraseFrom(WriteBatch(d, <<EraseOp(Head(keys))>>, okf[Head(keys)]),
                   Tail(keys), okf)

\* lines 555-574
AccGet(p) ==
    /\ acc' = [acc EXCEPT
                  !.mapCheckpoints = Get(acc.mapCheckpoints, acc.db, p).map,
                  !.last = [op |-> "Get", after |-> acc.last.op, key |-> p, height |-> 0,
                            result |-> Get(acc.mapCheckpoints, acc.db, p).result,
                            reads |-> Get(acc.mapCheckpoints, acc.db, p).reads,
                            writes |-> FALSE]]
    /\ UNCHANGED <<coinVars, blk>>

\* lines 577-581
AccSet(p, height) ==
    /\ acc' = [acc EXCEPT
                  !.mapCheckpoints = MapSet(@, p, height),
                  !.sets = MapSet(@, p, height),
                  !.last = [op |-> "Set", after |-> acc.last.op, key |-> p, height |-> height,
                            result |-> <<>>, reads |-> FALSE, writes |-> FALSE]]
    /\ UNCHANGED <<coinVars, blk>>

\* lines 583-588 and 397-400
AccErase(p, oks) ==
    /\ \E ok \in oks :
           acc' = [acc EXCEPT
                      !.mapCheckpoints = MapErase(@, p),
                      !.db = WriteBatch(@, <<EraseOp(AccKey(p))>>, ok),
                      !.sets = [x \in DOMAIN @ \ {p} |-> @[x]],
                      !.held = [x \in DOMAIN @ \ {p} |-> @[x]],
                      !.last = [op |-> "Erase", after |-> acc.last.op, key |-> p, height |-> 0,
                                result |-> <<>>, reads |-> FALSE, writes |-> TRUE]]
    /\ UNCHANGED <<coinVars, blk>>

\* lines 590-596 and 387-390
AccFlush(oks) ==
    /\ \E okf \in [DOMAIN acc.mapCheckpoints -> oks] :
           acc' = [acc EXCEPT
                      !.db = FlushFrom(@, acc.mapCheckpoints,
                                       SortKeys(DOMAIN acc.mapCheckpoints), okf),
                      !.last = [op |-> "Flush", after |-> acc.last.op, key |-> <<>>, height |-> 0,
                                result |-> <<>>, reads |-> FALSE,
                                writes |-> DOMAIN acc.mapCheckpoints # {}]]
    /\ UNCHANGED <<coinVars, blk>>

\* lines 598-602 and 426-452
AccWipe(oks) ==
    /\ LET setDelete == SetDeleteFrom(Seek(NewIterator(acc.db),
                                           <<LZC_ACCUMCS, 0, ZQ_ERROR>>))
       IN  \E okf \in [setDelete -> oks] :
               acc' = [acc EXCEPT
                          !.mapCheckpoints = EmptyStore,
                          !.db = EraseFrom(@, SortKeys(setDelete), okf),
                          !.sets = EmptyStore,
                          !.held = EmptyStore,
                          !.last = [op |-> "Wipe", after |-> acc.last.op, key |-> <<>>, height |-> 0,
                                    result |-> <<>>, reads |-> TRUE,
                                    writes |-> setDelete # {}]]
    /\ UNCHANGED <<coinVars, blk>>

\* a fresh AccumulatorCache over the same store is filled by ReadAll
FreshReadAll ==
    /\ acc' = [acc EXCEPT
                  !.loaded = <<ReadAll(acc.db, EmptyStore)>>,
                  !.last = [op |-> "ReadAll", after |-> acc.last.op, key |-> <<>>, height |-> 0,
                            result |-> <<>>, reads |-> TRUE, writes |-> FALSE]]
    /\ UNCHANGED <<coinVars, blk>>

\* ReadAll by a fresh instance (lines 402-405) or Wipe (lines 598-600 and
\* 426-429: the map is cleared, then WipeAccChecksums starts) taken record
\* by record
ScanBegin(op) ==
    /\ acc.scan.pc = "idle"
    /\ acc' = [acc EXCEPT
                  !.mapCheckpoints = IF op = "Wipe" THEN EmptyStore ELSE @,
                  !.scan = [NoScan EXCEPT
                               !.op = op, !.pc = "scan", !.start = acc.db,
                               !.pcursor = Seek(NewIterator(acc.db),
                                                <<LZC_ACCUMCS, 0, ZQ_ERROR>>)]]
    /\ UNCHANGED <<coinVars, blk>>

\* lines 406-413 and 431-439: one record
ScanStep ==
    /\ acc.scan.pc = "scan"
    /\ ~InterruptionPoint(acc.scan.cancel)
    /\ OnAccChecksum(acc.scan.pcursor)
    /\ acc' = [acc EXCEPT
                  !.scan.pcursor = IterNext(@),
                  !.scan.map = IF acc.scan.op = "ReadAll"
                               THEN MapSet(@, GetKeyAcc(acc.scan.pcursor).second,
                                           IterValue(acc.scan.pcursor))
                               ELSE @,
                  !.scan.setDelete = IF acc.scan.op = "Wipe"
                                     THEN @ \cup {IterKey(acc.scan.pcursor)}
                                     ELSE @]
    /\ UNCHANGED <<coinVars, blk>>

\* lines 417-423 and 442-451: the loop has ended; ReadAll returns the
\* mapping, WipeAccChecksums erases what it collected
ScanEnd(oks) ==
    /\ acc.scan.pc = "scan"
    /\ ~IterValid(acc.scan.pcursor)
          \/ (~InterruptionPoint(acc.scan.cancel) /\ ~OnAccChecksum(acc.scan.pcursor))
    /\ \E okf \in [acc.scan.setDelete -> oks] :
           acc' = [acc EXCEPT
                      !.db = EraseFrom(@, SortKeys(acc.scan.setDelete), okf),
                      !.loaded = IF acc.scan.op = "ReadAll" THEN <<acc.scan.map>> ELSE @,
                      !.scan.pc = "returned",
                      !.scan.pcursor = <<>>]
    /\ UNCHANGED <<coinVars, blk>>

\* the interruption of the thread is requested during the scan
ScanRequestInterrupt ==
    /\ acc.scan.pc = "scan"
    /\ ~acc.scan.cancel
    /\ acc' = [acc EXCEPT !.scan.cancel = TRUE]
    /\ UNCHANGED <<coinVars, blk>>

\* lines 407 and 432: the interruption point throws
ScanInterrupted ==
    /\ acc.scan.pc = "scan"
    /\ IterValid(acc.scan.pcursor)
    /\ InterruptionPoint(acc.scan.cancel)
    /\ acc' = [acc EXCEPT !.scan.pc = "interrupted", !.scan.pcursor = <<>>,
                          !.scan.setDelete = {}]
    /\ UNCHANGED <<coinVars, blk>>

\* the stores a cache starts over: empty, or holding a checksum record
\* and a coin-spend record
CacheStores ==
    {EmptyStore,
     [k \in {AccKey(<<1, 1>>), <<DB_COINSPEND, 1>>} |->
         IF k[1] = LZC_ACCUMCS THEN 5 ELSE 1]}

InitCache ==
    /\ db = EmptyStore
    /\ idleCommit
    /\ obs = NoObs
    /\ cur = NoCursor
    /\ up = NoUpgrade
    /\ blk = NoBlockTree
    /\ \E d \in CacheStores :
           acc = [NoCache EXCEPT
                     !.db = d,
                     !.held = [q \in {x \in CacheKeys : AccKey(x) \in DOMAIN d} |->
                                  d[AccKey(q)]]]

NextCache ==
    \/ \E p \in CacheKeys : AccGet(p)
    \/ \E p \in CacheKeys, h \in Heights : AccSet(p, h)
    \/ \E p \in CacheKeys : AccErase(p, BOOLEAN)
    \/ AccFlush(BOOLEAN)
    \/ AccWipe(BOOLEAN)
    \/ FreshReadAll

SpecCache == InitCache /\ [][NextCache]_vars

\* the same over a store none of whose writes fails
NextCacheApplied ==
    \/ \E p \in CacheKeys : AccGet(p)
    \/ \E p \in CacheKeys, h \in Heights : AccSet(p, h)
    \/ \E p \in CacheKeys : AccErase(p, {TRUE})
    \/ AccFlush({TRUE})
    \/ AccWipe({TRUE})
    \/ FreshReadAll

SpecCacheApplied == InitCache /\ [][NextCacheApplied]_vars

(***************************************************************************)
(* Claims about AccumulatorCache.                                          *)
(***************************************************************************)
\* C12: Set leaves the store as it is and neither reads nor writes it, and
\* a Get of the same key right after it returns the height set, again
\* without reading or writing the store.
C12_SetThenGet ==
    [][/\ (acc'.last.op = "Set") =>
              (acc'.db = acc.db /\ ~acc'.last.reads /\ ~acc'.last.writes)
       /\ (acc.last.op = "Set" /\ acc'.last.op = "Get" /\ acc'.last.key = acc.last.key) =>
              /\ acc'.last.result = <<acc.last.height>>
              /\ acc'.db = acc.db /\ ~acc'.last.reads /\ ~acc'.last.writes]_vars

\* a Get that followed the Set of its key, the store holding another
\* height for that key
C12_Witness ==
    /\ acc.last.op = "Get" /\ acc.last.after = "Set" /\ acc.last.result = <<20>>
    /\ ReadAccChecksum(acc.db, acc.last.key).ok
    /\ ReadAccChecksum(acc.db, acc.last.key).value # <<20>>

\* C13: what ReadAll gives a fresh instance right after a Flush holds every
\* key set before, with the height of its latest Set.
C13_FlushThenLoadAll ==
    (acc.last.op = "ReadAll" /\ acc.last.after = "Flush") =>
        \A p \in DOMAIN acc.sets :
            /\ p \in DOMAIN acc.loaded[1]
            /\ acc.loaded[1][p] = acc.sets[p]

(***************************************************************************)
(* Claims about the head-blocks marker, chunks and the caller's delta.     *)
(***************************************************************************)
Marker(d) == GetHeadBlocks(d)

\* C21: a BatchWrite of N that starts on a store without best-block record
\* whose marker is [N, P] takes old_tip = P and opens its batch with the
\* marker [N, P] again; no step changes the second entry of a marker that
\* stays present, and a marker that appears names the block that was best
\* right before it (the zero hash on a fresh store) as its second entry.
C21_OldTipRecovered ==
    [][/\ (pc = "idle" /\ pc' = "loop" /\ ~HasBest /\ HasHead
             /\ Marker(db)[1] = hashBlock') =>
              /\ old_tip' = Marker(db)[2]
              /\ batch' = <<EraseOp(BestBlockKey),
                            WriteOp(HeadBlocksKey, <<hashBlock', Marker(db)[2]>>)>>
       /\ Exists(db', HeadBlocksKey) =>
              IF HasHead THEN Marker(db')[2] = Marker(db)[2]
              ELSE Marker(db')[2] = GetBestBlock(db)]_vars

\* a repeated commit has rewritten the marker of a crashed one whose old
\* tip was a real block
C21_Witness ==
    /\ pc = "loop" /\ call.retry /\ call.writes = <<TRUE>>
    /\ ~HasBest /\ old_tip # UINT256_ZERO
    /\ Marker(db) = <<hashBlock, old_tip>>

\* C22: inside a BatchWrite, from its first intermediate WriteBatch on and
\* until the final one, the store has no best-block record and its marker
\* is [hashBlock, old_tip].
C22_MarkerDuringChunkedCommit ==
    (pc = "loop" /\ Len(call.writes) >= 1) =>
        (~HasBest /\ Marker(db) = <<hashBlock, old_tip>>)

\* C23: inside a BatchWrite that has made an intermediate WriteBatch (where
\* a crash keeps the store as it is) the coin records are those the call
\* started from with the dirty entries of a prefix of the delta applied.
C23_CrashLeavesPrefix ==
    (pc = "loop" /\ Len(call.writes) >= 1) =>
        \E n \in 0..Len(call.delta) :
            CoinsOf(db) = ExpectedCoins(call.pre, SubSeq(call.delta, 1, n))

\* C24: every iteration of the loop removes exactly the entry it consumed
\* from the caller's map, in the step that consumes it (so no later than
\* the chunk it triggers), and when BatchWrite returns, with true or with
\* false, the map is empty.
C24_DeltaDrained ==
    [][/\ (pc = "loop" /\ pc' = "loop" /\ mapCoins' # mapCoins) =>
              (mapCoins # <<>> /\ mapCoins' = SubSeq(mapCoins, 2, Len(mapCoins)))
       /\ (pc = "loop" /\ pc' = "loop"
             /\ (batch' # batch \/ call'.writes # call.writes)) =>
              (mapCoins # <<>> /\ mapCoins' = SubSeq(mapCoins, 2, Len(mapCoins)))
       /\ (pc' = "returned") => mapCoins' = <<>>]_vars

\* a BatchWrite of a delta with a clean and a dirty entry has returned
C24_Witness ==
    /\ pc = "returned" /\ mapCoins = <<>>
    /\ Len(call.delta) = 2
    /\ Cardinality(DirtyItems(call.delta)) = 1

RECURSIVE AllCoinOps(_)
AllCoinOps(delta) ==
    IF delta = <<>> THEN <<>>
    ELSE (IF Head(delta).entry.flags % 2 = 1
          THEN IF IsSpent(Head(delta).entry.coin)
               THEN <<EraseOp(CoinEntry(Head(delta).outpoint))>>
               ELSE <<WriteOp(CoinEntry(Head(delta).outpoint), Head(delta).entry.coin)>>
          ELSE <<>>) \o AllCoinOps(Tail(delta))

\* C25: a BatchWrite that reaches its end without an intermediate WriteBatch
\* makes one WriteBatch, of phase 1, the operations of every dirty entry in
\* order and phase 3; it leaves the store as it was or turns it in one step
\* into the store with the delta applied, the best block hashBlock and no
\* marker, and a store that had no marker before the call never has one.
C25_SingleAtomicBatch ==
    [][/\ (pc = "loop" /\ pc' = "returned" /\ call.writes = <<>>) =>
              /\ Len(call'.writes) = 1
              /\ batch = <<EraseOp(BestBlockKey),
                           WriteOp(HeadBlocksKey, <<hashBlock, old_tip>>)>>
                             \o AllCoinOps(call.delta)
              /\ db' = IF call'.writes[1] THEN call.goal ELSE db
              /\ call'.writes[1] => (db'[BestBlockKey] = hashBlock /\ ~Exists(db', HeadBlocksKey))
       /\ (pc \in {"loop", "returned"} /\ call.writes = <<>> /\ ~Exists(call.pre, HeadBlocksKey)) =>
              ~HasHead
       /\ (pc' = "returned" /\ Len(call'.writes) = 1 /\ ~Exists(call.pre, HeadBlocksKey)) =>
              ~Exists(db', HeadBlocksKey)]_vars

\* an unchunked BatchWrite has moved the store from the best block 1 to the
\* best block 2 with a dirty entry applied
C25_Witness ==
    /\ Returned("true") /\ Len(call.writes) = 1
    /\ DirtyItems(call.delta) # {}
    /\ GetBestBlock(call.pre) = 1 /\ ~Exists(call.pre, HeadBlocksKey)
    /\ db = call.goal /\ db[BestBlockKey] = 2 /\ ~HasHead

(***************************************************************************)
(* Claims about the cursor's states.                                       *)
(***************************************************************************)
\* the underlying iterator is on a coin-tagged key that decodes to an outpoint
OnCoinRecord(c) ==
    /\ IterValid(c.pcursor)
    /\ IterKey(c.pcursor)[1] = DB_COIN
    /\ Len(IterKey(c.pcursor)) = 3

\* C26: at creation and after every advance Valid() is true exactly when
\* the underlying iterator is on a coin-tagged key that decodes to an
\* outpoint, and GetKey then returns that outpoint; on a key that does not
\* decode the cursor is not Valid.
C26_ValidIffOnCoinRecord ==
    cur.open =>
        /\ CursorValid(cur) <=> OnCoinRecord(cur)
        /\ CursorValid(cur) =>
               CursorGetKey(cur) =
                   [found |-> TRUE,
                    key |-> COutPoint(IterKey(cur.pcursor)[2], IterKey(cur.pcursor)[3])]

\* the part of C26 about the states after an advance
C26_AfterAdvance ==
    (cur.open /\ cur.steps = 1) =>
        /\ CursorValid(cur) <=> OnCoinRecord(cur)
        /\ CursorValid(cur) =>
               CursorGetKey(cur) =
                   [found |-> TRUE,
                    key |-> COutPoint(IterKey(cur.pcursor)[2], IterKey(cur.pcursor)[3])]

\* C27: once Valid() is false no advance makes it true again, and GetKey
\* finds nothing from then on.
C27_ExhaustedIsTerminal ==
    [][(cur.open /\ ~CursorValid(cur) /\ cur'.open) =>
           (~CursorValid(cur') /\ ~CursorGetKey(cur').found)]_vars

\* the part of C27 about a cursor whose iterator has left the coin-tagged keys
C27_TerminalPastCoins ==
    [][(cur.open /\ ~CursorValid(cur) /\ cur'.open
          /\ (~IterValid(cur.pcursor) \/ IterKey(cur.pcursor)[1] # DB_COIN)) =>
           (~CursorValid(cur') /\ ~CursorGetKey(cur').found)]_vars

\* the outpoints of the coin records of store d in ascending key order
RECURSIVE OutpointsOf(_)
OutpointsOf(keys) ==
    IF keys = <<>> THEN <<>>
    ELSE (IF Head(keys)[1] = DB_COIN /\ Len(Head(keys)) = 3
          THEN <<COutPoint(Head(keys)[2], Head(keys)[3])>>
          ELSE <<>>) \o OutpointsOf(Tail(keys))

CoinRecordsInOrder(d) == OutpointsOf(SortKeys(DOMAIN d))

IsPrefix(a, b) == Len(a) <= Len(b) /\ a = SubSeq(b, 1, Len(a))

AllCoinKeysDecode(d) == \A k \in DOMAIN d : k[1] = DB_COIN => Len(k) = 3

LegacyKeysOf(d) == {k \in DOMAIN d : k[1] = DB_COINS}

Spendable(out) == ~IsNull(out) /\ ~IsUnspendable(out.scriptPubKey)

\* the coin keys the legacy records of d stand for: (txid, i) for every
\* output i that is neither null nor unspendable
ConvertedKeys(d) ==
    {CoinEntry(COutPoint(k[2], i - 1)) :
        <<k, i>> \in {x \in LegacyKeysOf(d) \X (1..2) :
                        /\ x[2] <= Len(d[x[1]].vout)
                        /\ Spendable(d[x[1]].vout[x[2]])}}

ConvertedCoin(d, ck) ==
    LET old == d[LegacyKey(ck[2])]
    IN  Coin(old.vout[ck[3] + 1], old.nHeight, old.fCoinBase, old.fCoinStake)

\* C29: after an Upgrade that returned true the store has no legacy record;
\* for every legacy record it started with it has a coin record at (txid, i)
\* for the outputs i that are neither null nor unspendable, with the output
\* and the height, coinbase and coinstake flag of that record; every other
\* key, among them the coin keys of null or unspendable outputs and of
\* other transactions, is as it was.
C29_UpgradeContent ==
    (up.pc = "returned" /\ up.ret) =>
        LET d == up.start[1]
        IN  /\ NoLegacyRecord
            /\ DOMAIN db = (DOMAIN d \ LegacyKeysOf(d)) \cup ConvertedKeys(d)
            /\ \A k \in DOMAIN db :
                   db[k] = IF k \in ConvertedKeys(d) THEN ConvertedCoin(d, k) ELSE d[k]

BlockIndexKeysOf(d) == {k \in DOMAIN d : k[1] = DB_BLOCK_INDEX}

\* C30: LoadBlockIndexGuts calls insertBlockIndex for block-index records
\* only, in key order from the first one; when it returns true it has done
\* so for every block-index record of the store; on a store without such
\* records it returns true without a call.
C30_ExactlyBlockIndexRecords ==
    (blk.op = "LoadBlockIndexGuts") =>
        /\ IsPrefix(blk.seen, SortKeys(BlockIndexKeysOf(blk.db)))
        /\ (blk.pc = "returned" /\ blk.ret = "true") =>
               blk.seen = SortKeys(BlockIndexKeysOf(blk.db))
        /\ (blk.pc = "returned" /\ BlockIndexKeysOf(blk.db) = {}) =>
               (blk.ret = "true" /\ blk.seen = <<>> /\ blk.map = EmptyIndex)

\* C30 on the stores all of whose block-index keys decode
C30_OnDecodableKeys ==
    (blk.op = "LoadBlockIndexGuts"
        /\ \A k \in BlockIndexKeysOf(blk.db) : k[2] # CutKeyHash) =>
        /\ IsPrefix(blk.seen, SortKeys(BlockIndexKeysOf(blk.db)))
        /\ (blk.pc = "returned" /\ blk.ret = "true") =>
               blk.seen = SortKeys(BlockIndexKeysOf(blk.db))
        /\ (blk.pc = "returned" /\ BlockIndexKeysOf(blk.db) = {}) =>
               (blk.ret = "true" /\ blk.seen = <<>> /\ blk.map = EmptyIndex)

(***************************************************************************)
(* Claims about the loaded block index.                                    *)
(***************************************************************************)
\* the record has its node, linked to the node of its predecessor
Linked(map, rec) ==
    /\ rec.hash \in DOMAIN map
    /\ map[rec.hash].pprev = rec.hashPrev
    /\ rec.hashPrev # UINT256_ZERO => rec.hashPrev \in DOMAIN map

\* the load has failed on the proof of work of a record below the
\* activation height, or on a value that does not parse
FailedOnPowBelowActivation ==
    LET keys == SortKeys(BlockIndexKeysOf(blk.db))
    IN  \/ /\ Len(blk.seen) < Len(keys)
           /\ ~blk.db[keys[Len(blk.seen) + 1]].parses
        \/ /\ blk.seen # <<>>
           /\ LET rec == blk.db[blk.seen[Len(blk.seen)]]
              IN  /\ rec.nHeight < PosHeight
                  /\ ~(rec.hash <= rec.nBits)

\* C31: after a LoadBlockIndexGuts that returned true every block-index
\* record of the store has a node for its hash whose pprev is the node of
\* its hashPrev, whichever of the two records came first; a load that
\* returned false met a value that does not parse or a record below the
\* activation height of UPGRADE_POS whose proof of work fails.
C31_LinksAndPowBelowActivation ==
    /\ (blk.op = "LoadBlockIndexGuts" /\ blk.pc = "returned" /\ blk.ret = "true") =>
           \A k \in BlockIndexKeysOf(blk.db) : Linked(blk.map, blk.db[k])
    /\ (blk.op = "LoadBlockIndexGuts" /\ blk.pc = "returned" /\ blk.ret = "false") =>
           FailedOnPowBelowActivation

\* C31 on the stores all of whose block-index keys decode
C31_OnDecodableKeys ==
    (\A k \in BlockIndexKeysOf(blk.db) : k[2] # CutKeyHash) =>
        C31_LinksAndPowBelowActivation

(***************************************************************************)
(* Claims about Get, Erase and Wipe of AccumulatorCache.                   *)
(***************************************************************************)
InStore(d, p) == AccKey(p) \in DOMAIN d

\* C33: a Get of a key that is in memory returns the height in memory and
\* does not read the store; a Get of a key that is not reads the store and,
\* when the store has the key, puts it into memory with the stored height
\* and returns that height; when neither has it, Get returns nothing and
\* memory stays as it is.  Get never changes the store.
C33_GetReadThrough ==
    [][(acc'.last.op = "Get") =>
           LET p == acc'.last.key
               m == acc.mapCheckpoints
           IN  /\ acc'.db = acc.db /\ ~acc'.last.writes
               /\ p \in DOMAIN m =>
                      /\ acc'.last.result = <<m[p]>>
                      /\ ~acc'.last.reads
                      /\ acc'.mapCheckpoints = m
               /\ (p \notin DOMAIN m /\ InStore(acc.db, p)) =>
                      /\ acc'.last.result = <<acc.db[AccKey(p)]>>
                      /\ acc'.last.reads
                      /\ acc'.mapCheckpoints =
                             [x \in DOMAIN m \cup {p} |->
                                 IF x = p THEN acc.db[AccKey(p)] ELSE m[x]]
               /\ (p \notin DOMAIN m /\ ~InStore(acc.db, p)) =>
                      /\ acc'.last.result = <<>>
                      /\ acc'.mapCheckpoints = m]_vars

\* a Get has missed in memory, found the key in the store and put it into
\* memory beside another key
C33_Witness ==
    /\ acc.last.op = "Get" /\ acc.last.reads
    /\ acc.last.result = <<5>>
    /\ acc.last.key \in DOMAIN acc.mapCheckpoints
    /\ acc.mapCheckpoints[acc.last.key] = 5
    /\ Cardinality(DOMAIN acc.mapCheckpoints) = 2

\* C34: right after Erase of a key neither memory nor the store has the
\* key, so that a Get of it, by this instance or by a fresh one over the
\* same store, finds nothing; the Erase leaves every other key of memory
\* and of the store as it was.
C34_EraseWriteThrough ==
    [][/\ (acc'.last.op = "Erase") =>
              LET p == acc'.last.key
              IN  /\ p \notin DOMAIN acc'.mapCheckpoints
                  /\ ~InStore(acc'.db, p)
                  /\ Get(acc'.mapCheckpoints, acc'.db, p).result = <<>>
                  /\ Get(EmptyStore, acc'.db, p).result = <<>>
                  /\ \A q \in DOMAIN acc.mapCheckpoints \ {p} :
                         /\ q \in DOMAIN acc'.mapCheckpoints
                         /\ acc'.mapCheckpoints[q] = acc.mapCheckpoints[q]
                  /\ DOMAIN acc'.mapCheckpoints \subseteq DOMAIN acc.mapCheckpoints
                  /\ \A k \in (DOMAIN acc.db \cup DOMAIN acc'.db) \ {AccKey(p)} :
                         /\ k \in DOMAIN acc.db /\ k \in DOMAIN acc'.db
                         /\ acc'.db[k] = acc.db[k]
       /\ (acc.last.op = "Erase" /\ acc'.last.op = "Get"
             /\ acc'.last.key = acc.last.key) =>
              acc'.last.result = <<>>]_vars

\* C35: right after Wipe memory is empty and the store has no record of
\* the tag LZC_ACCUMCS, so that Get finds nothing for any key and ReadAll
\* gives an empty mapping; the records of other tags are as they were.
C35_WipeClearsTag ==
    [][(acc'.last.op = "Wipe") =>
           /\ acc'.mapCheckpoints = EmptyStore
           /\ \A k \in DOMAIN acc'.db : k[1] # LZC_ACCUMCS
           /\ \A p \in CacheKeys : Get(acc'.mapCheckpoints, acc'.db, p).result = <<>>
           /\ ReadAll(acc'.db, EmptyStore) = EmptyStore
           /\ \A k \in DOMAIN acc.db :
                  k[1] # LZC_ACCUMCS => (k \in DOMAIN acc'.db /\ acc'.db[k] = acc.db[k])
           /\ DOMAIN acc'.db \subseteq DOMAIN acc.db]_vars

(***************************************************************************)
(* Claims about the operations of the batches.                             *)
(***************************************************************************)
RECURSIVE CoinOpsIn(_)
CoinOpsIn(b) ==
    IF b = <<>> THEN <<>>
    ELSE (IF Head(b).key[1] = DB_COIN THEN <<Head(b)>> ELSE <<>>) \o CoinOpsIn(Tail(b))

RECURSIVE Concat(_)
Concat(bs) == IF bs = <<>> THEN <<>> ELSE Head(bs) \o Concat(Tail(bs))

AllWritesSucceeded == \A i \in 1..Len(call.writes) : call.writes[i]

\* C36: in a BatchWrite whose WriteBatch calls have all succeeded, the coin
\* operations of the batches written so far followed by those of the
\* batch under construction are, one for one and in order, a write for
\* every dirty unspent and an erase for every dirty spent entry consumed
\* so far, and nothing for a clean one; when it has returned, the batches
\* written hold exactly one operation for every dirty entry of the delta.
C36_OneOperationPerDirtyEntry ==
    (pc \in {"loop", "returned"} /\ AllWritesSucceeded) =>
        CoinOpsIn(Concat(call.batches) \o batch) =
            AllCoinOps(SubSeq(call.delta, 1, Len(call.delta) - Len(mapCoins)))

\* a chunked BatchWrite of two dirty entries, one written and one erased,
\* has returned true after two batches
C36_Witness ==
    /\ Returned("true") /\ AllWritesSucceeded
    /\ Len(call.batches) >= 2
    /\ Len(call.delta) = 2
    /\ Cardinality(SpentItems(call.delta)) = 1
    /\ Cardinality(WrittenItems(call.delta)) = 1

\* C37: a BatchWrite of N that starts on a store without best-block record
\* whose marker has two entries and names another block than N ends at the
\* assertion: it is never entered, the step that ends it leaves the store
\* and the batch as they were, and no step replaces the first entry of a
\* marker that stays present.
C37_ForeignMarkerAsserts ==
    [][/\ (pc = "idle" /\ pc' = "loop" /\ ~HasBest /\ Len(Marker(db)) = 2) =>
              hashBlock' = Marker(db)[1]
       /\ (pc = "idle" /\ ret' = "abort") =>
              (db' = db /\ batch' = <<>> /\ pc' = "idle")
       /\ (HasHead /\ Exists(db', HeadBlocksKey)) =>
              Marker(db')[1] = Marker(db)[1]]_vars

\* a BatchWrite of a block has ended at the assertion on a store whose
\* marker names another block
C37_Witness ==
    /\ ret = "abort" /\ pc = "idle"
    /\ call.hb # UINT256_ZERO
    /\ ~HasBest /\ Len(Marker(db)) = 2
    /\ Marker(db)[1] # call.hb

\* C40: what a reader gets inside a BatchWrite that has made an
\* intermediate WriteBatch and not yet the final one: GetBestBlock gives
\* the zero hash, as on a fresh store, and HaveCoin answers as on the store
\* the call started from with a prefix of the delta applied.
C40_ReaderSeesNoBestBlock ==
    (obs.kind = "read" /\ pc = "loop" /\ Len(call.writes) >= 1) =>
        /\ obs.best = UINT256_ZERO
        /\ obs.noBest
        /\ \E n \in 0..Len(call.delta) :
               \A o \in Outpoints :
                   obs.have[o] <=>
                       CoinEntry(o) \in DOMAIN ExpectedCoins(call.pre,
                                                              SubSeq(call.delta, 1, n))

\* C39: on a store that fails no write and that nobody else writes, a Get
\* of a key returns the height of the latest Set of that key that no Erase
\* of the key and no Wipe followed; without such a Set it returns the
\* height the store held for the key at the start, unless the key was
\* erased or wiped since, and nothing otherwise.
C39_CacheCoherence ==
    [][(acc'.last.op = "Get") =>
           LET p == acc'.last.key
           IN  acc'.last.result =
                   IF p \in DOMAIN acc.sets THEN <<acc.sets[p]>>
                   ELSE IF p \in DOMAIN acc.held THEN <<acc.held[p]>>
                   ELSE <<>>]_vars

\* a Get has returned the height of a Set that came after a Flush of an
\* older height of the same key
C39_Witness ==
    /\ acc.last.op = "Get" /\ acc.last.after = "Set"
    /\ acc.last.result = <<20>>
    /\ InStore(acc.db, acc.last.key)
    /\ acc.db[AccKey(acc.last.key)] = 10
    /\ acc.last.key \notin DOMAIN acc.held

(***************************************************************************)
(* Claims about the states Upgrade passes through and about interruption.  *)
(***************************************************************************)
\* the store the first Upgrade started from (the store itself before it)
UpgradeStart == IF up.start = <<>> THEN db ELSE up.start[1]

\* every spendable output of the legacy record under k has its coin record
TxConverted(d, k) ==
    \A i \in 1..Len(d[k].vout) :
        Spendable(d[k].vout[i]) =>
            /\ CoinEntry(COutPoint(k[2], i - 1)) \in DOMAIN db
            /\ db[CoinEntry(COutPoint(k[2], i - 1))] =
                   Coin(d[k].vout[i], d[k].nHeight, d[k].fCoinBase, d[k].fCoinStake)

\* C38: in every state of the store during and after Upgrade runs, crashed,
\* interrupted or with failing writes, every legacy record the store started
\* with is either still there unchanged or gone with a coin record present
\* for each of its spendable outputs.
C38_LegacyOrConverted ==
    \A k \in LegacyKeysOf(UpgradeStart) :
        \/ k \in DOMAIN db /\ db[k] = UpgradeStart[k]
        \/ k \notin DOMAIN db /\ TxConverted(UpgradeStart, k)

\* an Upgrade was interrupted after a batch that converted one transaction
\* while another is still a legacy record
C38_Witness ==
    /\ up.pc = "interrupted"
    /\ \E k1, k2 \in LegacyKeysOf(UpgradeStart) :
           /\ k1 \notin DOMAIN db /\ TxConverted(UpgradeStart, k1)
           /\ \E i \in 1..Len(UpgradeStart[k1].vout) : Spendable(UpgradeStart[k1].vout[i])
           /\ k2 \in DOMAIN db

\* the four scan loops side by side, each over a store with two records of
\* its family and a record of another family, their threads interrupted at
\* any moment
ScanLegacy == [t \in Txids |-> LegacySample]

InitScan ==
    /\ db = StoreOf([k \in {BestBlockKey} |-> 1], {},
                    CHOOSE c \in UnspentCoins : c.nHeight = 10, Txids, ScanLegacy)
    /\ idleCommit
    /\ obs = NoObs
    /\ cur = NoCursor
    /\ up = NoUpgrade
    /\ blk = [NoBlockTree EXCEPT
                 !.db = [k \in {BlockIndexKey(h) : h \in IndexHashes} \cup {LastBlockKey} |->
                            IF k = LastBlockKey THEN 0
                            ELSE CDiskBlockIndex(TRUE, k[2], k[2] - 1, 1, EasyBits)]]
    /\ acc = [NoCache EXCEPT
                 !.db = [k \in {AccKey(p) : p \in CacheKeys} \cup {<<DB_COINSPEND, 1>>} |->
                            IF k[1] = LZC_ACCUMCS THEN 5 ELSE 1]]

NextScan ==
    \/ LoadBegin
    \/ LoadStep
    \/ LoadEnd
    \/ LoadRequestInterrupt
    \/ LoadInterrupted
    \/ UpgradeBegin
    \/ UpgradeStep(BOOLEAN)
    \/ UpgradeFinish(BOOLEAN)
    \/ UpgradeRequestInterrupt
    \/ UpgradeInterrupted
    \/ \E op \in {"ReadAll", "Wipe"} : ScanBegin(op)
    \/ ScanStep
    \/ ScanEnd(BOOLEAN)
    \/ ScanRequestInterrupt
    \/ ScanInterrupted

SpecScan == InitScan /\ [][NextScan]_vars

\* C32: each scan loop polls the interruption once per record, before it
\* processes the record: from the moment the interruption is requested no
\* loop processes a further record (its collected state stays as it is)
\* and its next step ends it; the step that ends an interrupted Upgrade or
\* Wipe leaves the store as it is, which is the store a crash at that
\* point leaves, and an interrupted Wipe has erased nothing.
C32_InterruptionPolledPerRecord ==
    [][/\ (blk.pc = "load" /\ blk.cancel) =>
              /\ blk'.map = blk.map /\ blk'.seen = blk.seen
              /\ blk' # blk => blk'.pc \in {"interrupted", "returned"}
              /\ (blk'.pc = "returned") => ~IterValid(blk.pcursor)
       /\ (up.pc = "loop" /\ up.cancel) =>
              /\ up' # up => up'.pc \in {"interrupted", "returned"}
              /\ (up'.pc = "returned") => ~IterValid(up.pcursor)
              /\ (up'.pc = "interrupted") => db' = db
       /\ (acc.scan.pc = "scan" /\ acc.scan.cancel) =>
              /\ acc'.scan.map = acc.scan.map
              /\ acc'.scan # acc.scan => acc'.scan.pc \in {"interrupted", "returned"}
              /\ (acc'.scan.pc = "returned") => ~IterValid(acc.scan.pcursor)
              /\ (acc'.scan.pc = "interrupted") =>
                     (acc'.db = acc.db /\ acc'.db = acc.scan.start)]_vars

\* the index load was interrupted after one record, Upgrade after a batch
\* it wrote, and a Wipe after it had collected a key
C32_Witness ==
    /\ blk.pc = "interrupted" /\ Len(blk.seen) = 1
    /\ up.pc = "interrupted" /\ Len(up.writes) >= 1
    /\ acc.scan.pc = "interrupted" /\ acc.scan.op = "Wipe"
    /\ IterValid(Seek(NewIterator(acc.db), <<LZC_ACCUMCS, 0, ZQ_ERROR>>))

====
